---- MODULE Spec2Model ----
(***************************************************************************)
(* Slot capacity and booking lifecycle of bookacut_backend.                *)
(*                                                                         *)
(* The store holds Slot and Booking documents.  Request handlers are       *)
(* async functions: every awaited store call is one atomic step, and the   *)
(* handlers of concurrent requests interleave between those steps.  A      *)
(* handler works on the in-memory document it loaded; save() writes the    *)
(* paths the handler assigned, onto whatever the store holds by then.      *)
(*                                                                         *)
(* Collections the core only reads (Service, ShopSettings, User) are not   *)
(* state: what a lookup in them returns is an input of the request.        *)
(***************************************************************************)
EXTENDS Integers, Sequences, FiniteSets, TLC

(* ------------------------------ bounds --------------------------------- *)
NumProcs == 2
NumSlots == 1
MaxBookings == 2
MaxStaff == 2
MaxPrice == 4
MaxDaysAhead == 8

Procs == 1..NumProcs

\* A scope stands for the pair (tenantId, shopId) that every lookup carries
\* (databaseName, shopId in the blocking service).  Shop 1 is the shop whose
\* slots are followed; scope 2 is another tenant's shop, which has no slots.
Scopes == {1, 2}
ShopScopes == {1}

\* Times of day are minutes after midnight ('HH:mm' in the store).  The shop
\* opens at 09:00 and its slots are 30 minutes long unless a request says
\* otherwise.
OpenTime == 540
SlotMinutes == 30

\* the days slots are generated for: today and tomorrow
GenDays == {0, 1}

VARIABLES slots, bookings, staff, shops, slotSocket, workers, pc, req, loc, res

vars == <<slots, bookings, staff, shops, slotSocket, workers, pc, req, loc, res>>

store == <<slots, bookings, staff>>

\* The Slot collection is a sequence: the _id of a slot is its position.  The
\* slots of this model are slots of today (date 0) unless generated otherwise.
SlotIds == DOMAIN slots
SlotScope(s) == slots[s].scope
SlotDate(s) == slots[s].date
SlotStart(s) == slots[s].startTime

\* the start times of the slots there are
StartTimes == {SlotStart(s) : s \in SlotIds}

(* ---------------------------- vocabulary ------------------------------- *)
Pending == "pending"
Confirmed == "confirmed"
Arrived == "arrived"
InProgress == "in_progress"
Completed == "completed"
Cancelled == "cancelled"
NoShow == "no_show"

\* the statuses a booking holds a place of its slot in
OccupyingStatuses == {Pending, Confirmed, Arrived, InProgress}

Null == "null"
BlockReasons == {Null, "maintenance"}
CancelReasons == {"changed plans"}

NoDoc == [id |-> 0, scope |-> 0, date |-> 0, startTime |-> 0, endTime |-> 0,
          capacity |-> 0, maxCapacity |-> 0, bookedCount |-> 0,
          status |-> Null, isBlocked |-> FALSE, blockedBy |-> 0,
          blockedReason |-> Null, blockedAt |-> FALSE, unblockAt |-> FALSE]

\* A Booking document.  Of its fields the model keeps the ones some property
\* reads; bookingType, staffId, priority, scheduledAt and the
\* arrivedAt/startedAt/completedAt timestamps are written by the handlers and
\* read by none of them.
NoBooking == [id |-> 0, slotId |-> 0, scope |-> 0, status |-> Null, cancelledAt |-> FALSE,
              cancelledBy |-> 0, cancelledByType |-> Null, cancellationReason |-> Null,
              originalPrice |-> 0, finalPrice |-> 0, priceEdited |-> FALSE,
              editedBy |-> 0, editReason |-> Null]

\* A handler's locals: the slot document and the booking document it loaded,
\* the booking documents (list) or slot documents (docs)
\* a find() returned and are still to be processed, a count, and (for the
\* record) the bookings that occupied the slot when the call began.
\* The slot generator keeps the day it is at (date), the start of the window
\* it is at (currentTime) and the ids of the slots it created (created).
NoLoc == [doc |-> NoDoc, bdoc |-> NoBooking, list |-> <<>>, docs |-> <<>>,
          n |-> 0, pre |-> {}, date |-> 0, currentTime |-> 0, created |-> <<>>]

\* A request: the operation and its arguments.
NoReq == [op |-> Null, scope |-> 0, id |-> 0, actor |-> 0, reason |-> Null, arg |-> 0,
          price |-> 0, startDate |-> 0, endDate |-> 0, seconds |-> 0]

(* ------------------------------ helpers -------------------------------- *)
\* The Slot document as a handler holds it in memory: the stored fields and its _id.
Load(s) == [slots[s] EXCEPT !.id = s]

\* the bookings of slot s in an occupying status
OccupyingIds(s) == {b \in 1..Len(bookings) :
                      bookings[b].slotId = s /\ bookings[b].status \in OccupyingStatuses}

OccupyingCount(s) == Cardinality(OccupyingIds(s))

\* status as a function of the blocked flag and the counts
DeriveStatus(isBlocked, capacity, bookedCount) ==
    IF isBlocked THEN "blocked"
    ELSE IF bookedCount >= capacity THEN "full" ELSE "available"

\* Slot.isAvailable() of the Slot model
isAvailable(doc) ==
    /\ ~doc.isBlocked
    /\ doc.status = "available"
    /\ doc.bookedCount < doc.capacity

\* Slot.findOne({_id, tenantId, shopId}): the slot id found, or 0
FindSlot(id, scope) == IF id \in SlotIds /\ SlotScope(id) = scope THEN id ELSE 0

\* Dates arrive as instants, counted in hours; a slot's date is a day.
HoursPerDay == 24

\* an instant of the given day
Noon(day) == day * HoursPerDay + 12

\* moment(date).startOf('day'): the day an instant falls in
startOfDay(instant) == instant \div HoursPerDay

\* faulty lookup: the shop is left out of the filter
FindSlotByKey_AnyShop(scope, date, slotTime) ==
    LET found == {s \in SlotIds : SlotDate(s) = date /\ SlotStart(s) = slotTime}
    IN IF found = {} THEN 0 ELSE CHOOSE s \in found : TRUE

\* Slot.findOne({shopId, date, startTime}): the slot id found, or 0
FindSlotByKey(scope, date, slotTime) ==
    LET found == {s \in SlotIds : SlotScope(s) = scope /\ SlotDate(s) = date
                                  /\ SlotStart(s) = slotTime}
    IN IF found = {} THEN 0 ELSE CHOOSE s \in found : TRUE

\* faulty lookup: Booking.findOne({_id, status}) without tenantId and shopId
FindBooking_AnyScope(id, scope, sources) ==
    IF /\ id \in 1..Len(bookings)
       /\ bookings[id].status \in sources
    THEN id ELSE 0

\* Booking.findOne({_id, tenantId, shopId, status: {$in: sources}}): the id found, or 0
FindBooking(id, scope, sources) ==
    IF /\ id \in 1..Len(bookings)
       /\ bookings[id].scope = scope
       /\ bookings[id].status \in sources
    THEN id ELSE 0

\* the ids of a set, in the order find() returns them
RECURSIVE SeqOf(_)
SeqOf(S) == IF S = {} THEN <<>>
            ELSE LET m == CHOOSE x \in S : \A y \in S : x <= y
                 IN <<m>> \o SeqOf(S \ {m})

Max(a, b) == IF a >= b THEN a ELSE b

\* What save() leaves in a stored path the handler assigned: a path is sent to
\* the store only if the assigned value differs from the one that was loaded.
Assign(stored, loaded, value) == IF value = loaded THEN stored ELSE value

(* ------------------------------- Init ---------------------------------- *)
\* no booking is stored and no request is being served
Requests ==
    /\ bookings = <<>>
    /\ pc = [p \in Procs |-> "idle"]
    /\ req = [p \in Procs |-> NoReq]
    /\ loc = [p \in Procs |-> NoLoc]
    /\ res = [p \in Procs |-> Null]

\* Slots as the generator leaves them for a shop open today from OpenTime:
\* capacity = maxCapacity = the active staff count of the shop, nothing
\* booked, available, not blocked.
StoreAsGenerated ==
    /\ \E n \in 1..MaxStaff : staff = [sc \in ShopScopes |-> n]
    /\ slots = [s \in 1..NumSlots |->
                  [NoDoc EXCEPT !.scope = 1, !.date = 0,
                                !.startTime = OpenTime + (s - 1) * SlotMinutes,
                                !.endTime = OpenTime + s * SlotMinutes,
                                !.capacity = staff[1],
                                !.maxCapacity = staff[1],
                                !.status = "available"]]
    /\ shops = [sc \in ShopScopes |->
                  [workingHours |-> [d \in GenDays |->
                                       [isOpen |-> d = 0, start |-> OpenTime,
                                        end |-> OpenTime + NumSlots * SlotMinutes]],
                   slotDuration |-> SlotMinutes]]
    /\ Requests

\* global.slotSocket is not installed: no handler emits a notification
InitStore == StoreAsGenerated /\ slotSocket = FALSE

\* every worker serves requests, concurrently
Init == InitStore /\ workers = Procs

\* one worker: the requests are served one after the other
SeqInit == InitStore /\ workers = {1}

(* --------------------------- control flow ------------------------------ *)
\* A worker is free to take a request.
Ready(p) == p \in workers /\ pc[p] = "idle"

\* The handler throws: the request ends with the error, the store untouched.
Fail(p, r, err) ==
    /\ pc' = [pc EXCEPT ![p] = "idle"]
    /\ req' = [req EXCEPT ![p] = NoReq]
    /\ res' = [res EXCEPT ![p] = err]
    /\ loc' = [loc EXCEPT ![p] = NoLoc]
    /\ UNCHANGED <<slots, bookings, staff, shops, slotSocket, workers>>

\* The handler passed its guards and goes on with what it loaded.
Begin(p, r, l, label) ==
    /\ pc' = [pc EXCEPT ![p] = label]
    /\ req' = [req EXCEPT ![p] = r]
    /\ res' = [res EXCEPT ![p] = Null]
    /\ loc' = [loc EXCEPT ![p] = l]
    /\ UNCHANGED <<slots, bookings, staff, shops, slotSocket, workers>>

\* The handler goes on to its next awaited call.
Goto(p, label) == pc' = [pc EXCEPT ![p] = label] /\ UNCHANGED <<req, res, shops, slotSocket, workers>>

\* The handler returns normally.
Finish(p) ==
    /\ pc' = [pc EXCEPT ![p] = "idle"]
    /\ res' = [res EXCEPT ![p] = "ok"]
    /\ req' = [req EXCEPT ![p] = NoReq]
    /\ loc' = [loc EXCEPT ![p] = NoLoc]
    /\ UNCHANGED <<shops, slotSocket, workers>>

\* if (global.slotSocket) { await global.slotSocket.notify...(...) } return:
\* with a socket installed the handler goes on to the emit, without one it
\* returns
Return(p, label) ==
    IF slotSocket
    THEN /\ pc' = [pc EXCEPT ![p] = label]
         /\ UNCHANGED <<req, res, loc, shops, slotSocket, workers>>
    ELSE Finish(p)

(* ------------------------ Slot.updateBookedCount ----------------------- *)
\* count the occupying bookings of the slot ...
updateBookedCount_Count(p) ==
    /\ pc[p] = "ubc_count"
    /\ loc' = [loc EXCEPT ![p].n = OccupyingCount(loc[p].doc.id)]
    /\ Goto(p, "ubc_save")
    /\ UNCHANGED <<slots, bookings, staff>>

\* ... then store the count and the status derived from it
updateBookedCount_Save(p) ==
    /\ pc[p] = "ubc_save"
    /\ LET d == loc[p].doc
           n == loc[p].n
       IN slots' = [slots EXCEPT
                      ![d.id].bookedCount = Assign(@, d.bookedCount, n),
                      ![d.id].status =
                          Assign(@, d.status, DeriveStatus(d.isBlocked, d.capacity, n))]
    /\ IF req[p].op = "createOnlineBooking"
       THEN Finish(p)
       ELSE Return(p, "notify_booking")
    /\ UNCHANGED <<bookings, staff>>

(* ------------------- BookingService.createOnlineBooking ---------------- *)
\* a ShopSettings field that is not set, or the shop has no ShopSettings document
Unset == -1

\* settings?.bookingAdvanceDays || 7
DefaultAdvanceDays == 7

maxAdvanceDays(setting) ==
    IF setting = Unset \/ setting = 0 THEN DefaultAdvanceDays ELSE setting

\* the values of settings?.autoConfirmBooking
AutoConfirmSettings == {"unset", "on", "off"}

\* faulty status: the setting is ignored
OnlineStatus_AlwaysConfirmed(autoConfirm) == Confirmed

\* settings?.autoConfirmBooking !== false ? CONFIRMED : PENDING
OnlineStatus(autoConfirm) == IF autoConfirm # "off" THEN Confirmed ELSE Pending

\* Slot.findOne and the guards.  Service.findOne and ShopSettings.findOne read
\* collections the core never writes, so what they return is an input:
\* svcPrice (Unset: no active service of the shop was found, else its price),
\* the bookingAdvanceDays and autoConfirmBooking settings.  today is the day
\* the clock shows, in days relative to the date of the slots.
createOnlineBooking_Find(p, scope, slotId, svcPrice, advanceSetting, autoConfirm, today) ==
    /\ Ready(p)
    /\ Len(bookings) < MaxBookings
    /\ LET r == [NoReq EXCEPT !.op = "createOnlineBooking", !.scope = scope, !.id = slotId,
                              !.reason = autoConfirm, !.arg = svcPrice]
           s == FindSlot(slotId, scope)
       IN IF s = 0 THEN Fail(p, r, "Slot not found")
          ELSE IF slots[s].isBlocked \/ slots[s].status = "blocked"
               THEN Fail(p, r, "Slot is blocked and cannot be booked")
          ELSE IF ~isAvailable(Load(s)) THEN Fail(p, r, "Slot is full")
          ELSE IF svcPrice = Unset THEN Fail(p, r, "Service not found or inactive")
          ELSE IF SlotDate(s) - today > maxAdvanceDays(advanceSetting)
               THEN Fail(p, r, "Bookings can only be made some days in advance")
          ELSE Begin(p, r, [NoLoc EXCEPT !.doc = Load(s)], "on_create")

createOnlineBooking_Create(p) ==
    /\ pc[p] = "on_create"
    /\ bookings' = Append(bookings,
                          [NoBooking EXCEPT !.id = Len(bookings) + 1,
                                            !.slotId = loc[p].doc.id, !.scope = req[p].scope,
                                            !.status = OnlineStatus(req[p].reason),
                                            !.originalPrice = req[p].arg,
                                            !.finalPrice = req[p].arg])
    /\ Goto(p, "ubc_count")
    /\ UNCHANGED <<slots, staff, loc>>

(* ------------------- BookingService.createWalkInBooking ---------------- *)
\* price || service.price
WalkInFinalPrice(price, svcPrice) == IF price = Unset \/ price = 0 THEN svcPrice ELSE price

\* price !== service.price
WalkInPriceEdited(price, svcPrice) == price # svcPrice

\* faulty walk-in: the capacity guard of the online path is applied
createWalkInBooking_Find_CapacityGuard(p, scope, slotId, svcPrice, price) ==
    /\ Ready(p)
    /\ Len(bookings) < MaxBookings
    /\ LET r == [NoReq EXCEPT !.op = "createWalkInBooking", !.scope = scope, !.id = slotId,
                              !.actor = p, !.arg = svcPrice, !.price = price]
           s == FindSlot(slotId, scope)
       IN IF s = 0 THEN Fail(p, r, "Slot not found")
          ELSE IF slots[s].isBlocked \/ slots[s].status = "blocked"
               THEN Fail(p, r, "Slot is blocked and cannot be booked")
          ELSE IF ~isAvailable(Load(s)) THEN Fail(p, r, "Slot is full")
          ELSE IF svcPrice = Unset THEN Fail(p, r, "TypeError")
          ELSE Begin(p, r, [NoLoc EXCEPT !.doc = Load(s)], "wi_create")

\* No capacity guard.  The customer is looked up in a collection that is not
\* state here.  Service.findOne has no isActive filter and its result is used
\* unchecked: svcPrice is the price of the service found, Unset when none was
\* found (service.price then throws a TypeError).  price is the override the
\* caller passed, Unset when it passed none.
createWalkInBooking_Find(p, scope, slotId, svcPrice, price) ==
    /\ Ready(p)
    /\ Len(bookings) < MaxBookings
    /\ LET r == [NoReq EXCEPT !.op = "createWalkInBooking", !.scope = scope, !.id = slotId,
                              !.actor = p, !.arg = svcPrice, !.price = price]
           s == FindSlot(slotId, scope)
       IN IF s = 0 THEN Fail(p, r, "Slot not found")
          ELSE IF slots[s].isBlocked \/ slots[s].status = "blocked"
               THEN Fail(p, r, "Slot is blocked and cannot be booked")
          ELSE IF svcPrice = Unset THEN Fail(p, r, "TypeError")
          ELSE Begin(p, r, [NoLoc EXCEPT !.doc = Load(s)], "wi_create")

createWalkInBooking_Create(p) ==
    /\ pc[p] = "wi_create"
    /\ LET edited == WalkInPriceEdited(req[p].price, req[p].arg)
       IN bookings' = Append(bookings,
                             [NoBooking EXCEPT
                                !.id = Len(bookings) + 1,
                                !.slotId = loc[p].doc.id, !.scope = req[p].scope,
                                !.status = Confirmed,
                                !.originalPrice = req[p].arg,
                                !.finalPrice = WalkInFinalPrice(req[p].price, req[p].arg),
                                !.priceEdited = edited,
                                !.editedBy = IF edited THEN req[p].actor ELSE 0,
                                !.editReason = IF edited THEN "Walk-in pricing" ELSE Null])
    /\ Goto(p, "ubc_count")
    /\ UNCHANGED <<slots, staff, loc>>

(* ---------------------- BookingService transitions --------------------- *)
\* faulty filters: start-service that also takes a pending booking, and
\* complete-service that also takes an arrived one
startServiceSources_WithPending == {Pending, Confirmed, Arrived}
completeServiceSources_WithArrived == {Arrived, InProgress}

\* faulty filter: a pending booking can be cancelled
cancelBookingSources_WithPending == {Pending, Confirmed, Arrived}

\* the status filter of each transition's Booking.findOne
markArrivedSources == {Confirmed}
markNoShowSources == {Confirmed, Arrived}
startServiceSources == {Confirmed, Arrived}
completeServiceSources == {InProgress}
cancelBookingSources == {Confirmed, Arrived}

\* Booking.findOne with the status filter; a miss throws.
TransitionFind(p, r, sources, err, label) ==
    /\ Ready(p)
    /\ LET b == FindBooking(r.id, r.scope, sources)
       IN IF b = 0 THEN Fail(p, r, err)
          ELSE Begin(p, r, [NoLoc EXCEPT !.bdoc = bookings[b]], label)

markArrived_Find(p, scope, id) ==
    TransitionFind(p, [NoReq EXCEPT !.op = "markArrived", !.scope = scope, !.id = id],
                   markArrivedSources, "Booking not found or already processed", "ma_save")

markArrived_Save(p) ==
    /\ pc[p] = "ma_save"
    /\ bookings' = [bookings EXCEPT
                      ![loc[p].bdoc.id].status = Assign(@, loc[p].bdoc.status, Arrived)]
    /\ Return(p, "notify_booking")
    /\ UNCHANGED <<slots, staff>>

markNoShow_Find(p, scope, id) ==
    TransitionFind(p, [NoReq EXCEPT !.op = "markNoShow", !.scope = scope, !.id = id],
                   markNoShowSources, "Booking not found", "mn_save")

markNoShow_Save(p) ==
    /\ pc[p] = "mn_save"
    /\ bookings' = [bookings EXCEPT
                      ![loc[p].bdoc.id].status = Assign(@, loc[p].bdoc.status, NoShow)]
    /\ Goto(p, "mn_slot")
    /\ UNCHANGED <<slots, staff, loc>>

\* Slot.findById(booking.slotId), then slot.updateBookedCount()
markNoShow_FindSlot(p) ==
    /\ pc[p] = "mn_slot"
    /\ loc' = [loc EXCEPT ![p].doc = Load(loc[p].bdoc.slotId)]
    /\ Goto(p, "ubc_count")
    /\ UNCHANGED <<slots, bookings, staff>>

startService_Find(p, scope, id) ==
    TransitionFind(p, [NoReq EXCEPT !.op = "startService", !.scope = scope, !.id = id,
                                    !.actor = p],
                   startServiceSources, "Booking not found or cannot be started", "ss_save")

startService_Save(p) ==
    /\ pc[p] = "ss_save"
    /\ bookings' = [bookings EXCEPT
                      ![loc[p].bdoc.id].status = Assign(@, loc[p].bdoc.status, InProgress)]
    /\ Return(p, "notify_booking")
    /\ UNCHANGED <<slots, staff>>

completeService_Find(p, scope, id) ==
    TransitionFind(p, [NoReq EXCEPT !.op = "completeService", !.scope = scope, !.id = id],
                   completeServiceSources, "Booking not found or not in progress", "cs_save")

completeService_Save(p) ==
    /\ pc[p] = "cs_save"
    /\ bookings' = [bookings EXCEPT
                      ![loc[p].bdoc.id].status = Assign(@, loc[p].bdoc.status, Completed)]
    /\ Return(p, "notify_booking")
    /\ UNCHANGED <<slots, staff>>

cancelBooking_Find(p, scope, id, reason) ==
    TransitionFind(p, [NoReq EXCEPT !.op = "cancelBooking", !.scope = scope, !.id = id,
                                    !.actor = p, !.reason = reason],
                   cancelBookingSources, "Booking not found or cannot be cancelled", "cb_save")

\* faulty cancel: returns after booking.save(), the slot is not recounted
cancelBooking_Save_NoRecount(p) ==
    /\ pc[p] = "cb_save"
    /\ LET d == loc[p].bdoc
       IN bookings' = [bookings EXCEPT
                         ![d.id].status = Assign(@, d.status, Cancelled),
                         ![d.id].cancelledAt = TRUE,
                         ![d.id].cancelledBy = Assign(@, d.cancelledBy, req[p].actor),
                         ![d.id].cancellationReason =
                             Assign(@, d.cancellationReason, req[p].reason)]
    /\ Finish(p)
    /\ UNCHANGED <<slots, staff>>

cancelBooking_Save(p) ==
    /\ pc[p] = "cb_save"
    /\ LET d == loc[p].bdoc
       IN bookings' = [bookings EXCEPT
                         ![d.id].status = Assign(@, d.status, Cancelled),
                         ![d.id].cancelledAt = TRUE,
                         ![d.id].cancelledBy = Assign(@, d.cancelledBy, req[p].actor),
                         ![d.id].cancellationReason =
                             Assign(@, d.cancellationReason, req[p].reason)]
    /\ Goto(p, "cb_slot")
    /\ UNCHANGED <<slots, staff, loc>>

cancelBooking_FindSlot(p) ==
    /\ pc[p] = "cb_slot"
    /\ loc' = [loc EXCEPT ![p].doc = Load(loc[p].bdoc.slotId)]
    /\ Goto(p, "ubc_count")
    /\ UNCHANGED <<slots, bookings, staff>>

(* ----------------------- BookingService.editPrice ---------------------- *)
editPriceSources == {Confirmed, Arrived, InProgress}

EditReasons == {"loyalty"}

editPrice_Find(p, scope, id, newPrice, reason) ==
    TransitionFind(p, [NoReq EXCEPT !.op = "editPrice", !.scope = scope, !.id = id,
                                    !.actor = p, !.reason = reason, !.price = newPrice],
                   editPriceSources, "Booking not found or cannot be edited", "ep_check")

\* ((originalPrice - newPrice) / originalPrice) * 100 > maxDiscountPercentage,
\* compared exactly.  With originalPrice 0 the quotient is NaN or -Infinity,
\* which exceeds nothing.
DiscountExceeds(originalPrice, newPrice, maxDiscount) ==
    IF originalPrice = 0 THEN FALSE
    ELSE (originalPrice - newPrice) * 100 > maxDiscount * originalPrice

\* ShopSettings.findOne and the two policy guards.  What the lookup returns is
\* an input: hasSettings (the shop has a ShopSettings document), its
\* allowPriceEditing flag and its maxDiscountPercentage (Unset: not set).
editPrice_Check(p, hasSettings, allowPriceEditing, maxDiscount) ==
    /\ pc[p] = "ep_check"
    /\ IF hasSettings /\ ~allowPriceEditing
       THEN Fail(p, req[p], "Price editing is disabled for this shop")
       ELSE IF /\ hasSettings
               /\ maxDiscount # Unset /\ maxDiscount # 0
               /\ DiscountExceeds(loc[p].bdoc.originalPrice, req[p].price, maxDiscount)
            THEN Fail(p, req[p], "Discount cannot exceed the maximum")
       ELSE /\ Goto(p, "ep_save")
            /\ UNCHANGED <<slots, bookings, staff, loc>>

editPrice_Save(p) ==
    /\ pc[p] = "ep_save"
    /\ LET d == loc[p].bdoc
       IN bookings' = [bookings EXCEPT
                         ![d.id].finalPrice = Assign(@, d.finalPrice, req[p].price),
                         ![d.id].priceEdited = Assign(@, d.priceEdited, TRUE),
                         ![d.id].editedBy = Assign(@, d.editedBy, req[p].actor),
                         ![d.id].editReason = Assign(@, d.editReason, req[p].reason)]
    /\ Return(p, "notify_booking")
    /\ UNCHANGED <<slots, staff>>

(* ------------------------- SlotBlockingService ------------------------- *)
\* faulty guards: a slot that is already blocked is blocked again
BlockGuards_NoConflict(p, r, s, label) ==
    IF s = 0 THEN Fail(p, r, "Slot not found")
    ELSE Begin(p, r, [NoLoc EXCEPT !.doc = Load(s), !.pre = OccupyingIds(s)], label)

\* the guards both block entry points apply to the slot they resolved
BlockGuards(p, r, s, label) ==
    IF s = 0 THEN Fail(p, r, "Slot not found")
    ELSE IF slots[s].isBlocked THEN Fail(p, r, "Slot is already blocked")
    ELSE Begin(p, r, [NoLoc EXCEPT !.doc = Load(s), !.pre = OccupyingIds(s)], label)

\* Booking.find({slotId, status: {$in: [pending, confirmed, arrived, in_progress]}})
BlockFindBookings(p, from, to) ==
    /\ pc[p] = from
    /\ LET ids == SeqOf(OccupyingIds(loc[p].doc.id))
       IN loc' = [loc EXCEPT ![p].list = [i \in 1..Len(ids) |-> bookings[ids[i]]]]
    /\ Goto(p, to)
    /\ UNCHANGED <<slots, bookings, staff>>

\* faulty cascade: the booking is cancelled without cancelledByType
BlockCancelNext_NoType(p, at) ==
    /\ pc[p] = at
    /\ loc[p].list # <<>>
    /\ LET d == Head(loc[p].list)
           reason == IF req[p].reason # Null THEN req[p].reason ELSE "Slot blocked by admin"
       IN bookings' = [bookings EXCEPT
                         ![d.id].status = Assign(@, d.status, Cancelled),
                         ![d.id].cancelledAt = TRUE,
                         ![d.id].cancelledBy = Assign(@, d.cancelledBy, req[p].actor),
                         ![d.id].cancellationReason =
                             Assign(@, d.cancellationReason, reason)]
    /\ loc' = [loc EXCEPT ![p].list = Tail(loc[p].list)]
    /\ Goto(p, at)
    /\ UNCHANGED <<slots, staff>>

\* one turn of the loop: the next booking found is saved as cancelled
BlockCancelNext(p, at) ==
    /\ pc[p] = at
    /\ loc[p].list # <<>>
    /\ LET d == Head(loc[p].list)
           reason == IF req[p].reason # Null THEN req[p].reason ELSE "Slot blocked by admin"
       IN bookings' = [bookings EXCEPT
                         ![d.id].status = Assign(@, d.status, Cancelled),
                         ![d.id].cancelledAt = TRUE,
                         ![d.id].cancelledBy = Assign(@, d.cancelledBy, req[p].actor),
                         ![d.id].cancelledByType = Assign(@, d.cancelledByType, "admin"),
                         ![d.id].cancellationReason =
                             Assign(@, d.cancellationReason, reason)]
    /\ loc' = [loc EXCEPT ![p].list = Tail(loc[p].list)]
    /\ Goto(p, at)
    /\ UNCHANGED <<slots, staff>>

\* faulty block: the capacity is reset to maxCapacity along with the count
BlockSaveSlot_ResetCapacity(p, at) ==
    /\ pc[p] = at
    /\ loc[p].list = <<>>
    /\ LET d == loc[p].doc
       IN slots' = [slots EXCEPT
                      ![d.id].isBlocked = Assign(@, d.isBlocked, TRUE),
                      ![d.id].status = Assign(@, d.status, "blocked"),
                      ![d.id].blockedBy = Assign(@, d.blockedBy, req[p].actor),
                      ![d.id].blockedAt = TRUE,
                      ![d.id].blockedReason = Assign(@, d.blockedReason, req[p].reason),
                      ![d.id].bookedCount = Assign(@, d.bookedCount, 0),
                      ![d.id].capacity = Assign(@, d.capacity, d.maxCapacity)]
    /\ Return(p, "notify_slot_caught")
    /\ UNCHANGED <<bookings, staff>>

\* after the loop: the slot is saved as blocked, its booked count reset
BlockSaveSlot(p, at) ==
    /\ pc[p] = at
    /\ loc[p].list = <<>>
    /\ LET d == loc[p].doc
       IN slots' = [slots EXCEPT
                      ![d.id].isBlocked = Assign(@, d.isBlocked, TRUE),
                      ![d.id].status = Assign(@, d.status, "blocked"),
                      ![d.id].blockedBy = Assign(@, d.blockedBy, req[p].actor),
                      ![d.id].blockedAt = TRUE,
                      ![d.id].blockedReason = Assign(@, d.blockedReason, req[p].reason),
                      ![d.id].bookedCount = Assign(@, d.bookedCount, 0)]
    /\ Return(p, "notify_slot_caught")
    /\ UNCHANGED <<bookings, staff>>

blockSlot_Find(p, scope, date, slotTime, reason) ==
    /\ Ready(p)
    /\ BlockGuards(p, [NoReq EXCEPT !.op = "blockSlot", !.scope = scope, !.id = slotTime,
                                    !.actor = p, !.reason = reason],
                   FindSlotByKey(scope, startOfDay(date), slotTime), "bs_find")

blockSlot_FindBookings(p) == BlockFindBookings(p, "bs_find", "bs_cancel")

blockSlot_Cancel(p) == BlockCancelNext(p, "bs_cancel")

blockSlot_Save(p) == BlockSaveSlot(p, "bs_cancel")

blockSlotById_Find(p, scope, slotId, reason) ==
    /\ Ready(p)
    /\ BlockGuards(p, [NoReq EXCEPT !.op = "blockSlotById", !.scope = scope, !.id = slotId,
                                    !.actor = p, !.reason = reason],
                   FindSlot(slotId, scope), "bi_find")

blockSlotById_FindBookings(p) == BlockFindBookings(p, "bi_find", "bi_cancel")

blockSlotById_Cancel(p) == BlockCancelNext(p, "bi_cancel")

blockSlotById_Save(p) == BlockSaveSlot(p, "bi_cancel")

\* the guards both unblock entry points apply
UnblockGuards(p, r, s, label) ==
    IF s = 0 THEN Fail(p, r, "Slot not found")
    ELSE IF ~slots[s].isBlocked THEN Fail(p, r, "Slot is not blocked")
    ELSE Begin(p, r, [NoLoc EXCEPT !.doc = Load(s)], label)

\* faulty unblock: the slot is saved as available whatever its counts
UnblockSaveSlot_AlwaysAvailable(p, at) ==
    /\ pc[p] = at
    /\ LET d == loc[p].doc
       IN slots' = [slots EXCEPT
                      ![d.id].isBlocked = Assign(@, d.isBlocked, FALSE),
                      ![d.id].blockedBy = Assign(@, d.blockedBy, 0),
                      ![d.id].blockedAt = Assign(@, d.blockedAt, FALSE),
                      ![d.id].unblockAt = TRUE,
                      ![d.id].blockedReason = Assign(@, d.blockedReason, Null),
                      ![d.id].status = Assign(@, d.status, "available")]
    /\ Return(p, "notify_slot_caught")
    /\ UNCHANGED <<bookings, staff>>

\* the slot is saved as unblocked, its status taken from the counts it was loaded with
UnblockSaveSlot(p, at) ==
    /\ pc[p] = at
    /\ LET d == loc[p].doc
       IN slots' = [slots EXCEPT
                      ![d.id].isBlocked = Assign(@, d.isBlocked, FALSE),
                      ![d.id].blockedBy = Assign(@, d.blockedBy, 0),
                      ![d.id].blockedAt = Assign(@, d.blockedAt, FALSE),
                      ![d.id].unblockAt = TRUE,
                      ![d.id].blockedReason = Assign(@, d.blockedReason, Null),
                      ![d.id].status =
                          Assign(@, d.status,
                                 IF d.bookedCount >= d.capacity THEN "full" ELSE "available")]
    /\ Return(p, "notify_slot_caught")
    /\ UNCHANGED <<bookings, staff>>

unblockSlot_Find(p, scope, date, slotTime) ==
    /\ Ready(p)
    /\ UnblockGuards(p, [NoReq EXCEPT !.op = "unblockSlot", !.scope = scope, !.id = slotTime],
                     FindSlotByKey(scope, startOfDay(date), slotTime), "us_save")

unblockSlot_Save(p) == UnblockSaveSlot(p, "us_save")

unblockSlotById_Find(p, scope, slotId) ==
    /\ Ready(p)
    /\ UnblockGuards(p, [NoReq EXCEPT !.op = "unblockSlotById", !.scope = scope, !.id = slotId],
                     FindSlot(slotId, scope), "ui_save")

unblockSlotById_Save(p) == UnblockSaveSlot(p, "ui_save")

(* ----------------------------- SlotService ----------------------------- *)
\* SlotService.blockSlot: marks the status only
SlotService_blockSlot_Find(p, scope, slotId, reason) ==
    /\ Ready(p)
    /\ LET r == [NoReq EXCEPT !.op = "SlotService.blockSlot", !.scope = scope, !.id = slotId,
                              !.actor = p, !.reason = reason]
           s == FindSlot(slotId, scope)
       IN IF s = 0 THEN Fail(p, r, "Slot not found")
          ELSE Begin(p, r, [NoLoc EXCEPT !.doc = Load(s)], "sb_save")

SlotService_blockSlot_Save(p) ==
    /\ pc[p] = "sb_save"
    /\ LET d == loc[p].doc
       IN slots' = [slots EXCEPT
                      ![d.id].status = Assign(@, d.status, "blocked"),
                      ![d.id].blockedBy = Assign(@, d.blockedBy, req[p].actor),
                      ![d.id].blockedReason = Assign(@, d.blockedReason, req[p].reason)]
    /\ Return(p, "notify_slot")
    /\ UNCHANGED <<bookings, staff>>

SlotService_unblockSlot_Find(p, scope, slotId) ==
    /\ Ready(p)
    /\ LET r == [NoReq EXCEPT !.op = "SlotService.unblockSlot", !.scope = scope, !.id = slotId]
           s == FindSlot(slotId, scope)
       IN IF s = 0 THEN Fail(p, r, "Slot not found")
          ELSE Begin(p, r, [NoLoc EXCEPT !.doc = Load(s)], "su_save")

SlotService_unblockSlot_Save(p) ==
    /\ pc[p] = "su_save"
    /\ LET d == loc[p].doc
       IN slots' = [slots EXCEPT
                      ![d.id].status =
                          Assign(@, d.status,
                                 IF d.bookedCount >= d.capacity THEN "full" ELSE "available"),
                      ![d.id].blockedBy = Assign(@, d.blockedBy, 0),
                      ![d.id].blockedReason = Assign(@, d.blockedReason, Null)]
    /\ Return(p, "notify_slot")
    /\ UNCHANGED <<bookings, staff>>

\* the controller lets through capacity >= 1 only
reduceSlotCapacity_Find(p, scope, slotId, newCapacity) ==
    /\ Ready(p)
    /\ newCapacity >= 1
    /\ LET r == [NoReq EXCEPT !.op = "reduceSlotCapacity", !.scope = scope, !.id = slotId,
                              !.arg = newCapacity]
           s == FindSlot(slotId, scope)
       IN IF s = 0 THEN Fail(p, r, "Slot not found")
          ELSE IF newCapacity < slots[s].bookedCount
               THEN Fail(p, r, "Cannot reduce capacity below current bookings")
          ELSE Begin(p, r, [NoLoc EXCEPT !.doc = Load(s)], "rc_save")

reduceSlotCapacity_Save(p) ==
    /\ pc[p] = "rc_save"
    /\ LET d == loc[p].doc
           c == req[p].arg
       IN slots' = [slots EXCEPT
                      ![d.id].capacity = Assign(@, d.capacity, c),
                      ![d.id].status =
                          Assign(@, d.status, IF d.bookedCount >= c THEN "full" ELSE "available")]
    /\ Return(p, "notify_slot")
    /\ UNCHANGED <<bookings, staff>>

(* ---------- staff roster changes and SlotService.updateSlotCapacity ---- *)
\* ClientAdminController.addStaff / removeStaff: the staff profile is saved,
\* then the capacities of today's slots of the shop are brought in line.
addStaff_Save(p, scope) ==
    /\ Ready(p)
    /\ staff[scope] < MaxStaff
    /\ staff' = [staff EXCEPT ![scope] = @ + 1]
    /\ pc' = [pc EXCEPT ![p] = "sync_count"]
    /\ req' = [req EXCEPT ![p] = [NoReq EXCEPT !.op = "addStaff", !.scope = scope]]
    /\ res' = [res EXCEPT ![p] = Null]
    /\ loc' = [loc EXCEPT ![p] = NoLoc]
    /\ UNCHANGED <<slots, bookings, shops, slotSocket, workers>>

removeStaff_Save(p, scope) ==
    /\ Ready(p)
    /\ staff[scope] > 0
    /\ staff' = [staff EXCEPT ![scope] = @ - 1]
    /\ pc' = [pc EXCEPT ![p] = "sync_count"]
    /\ req' = [req EXCEPT ![p] = [NoReq EXCEPT !.op = "removeStaff", !.scope = scope]]
    /\ res' = [res EXCEPT ![p] = Null]
    /\ loc' = [loc EXCEPT ![p] = NoLoc]
    /\ UNCHANGED <<slots, bookings, shops, slotSocket, workers>>

\* StaffProfile.countDocuments({tenantId, shopId, isActive: true})
updateSlotCapacity_Count(p) ==
    /\ pc[p] = "sync_count"
    /\ loc' = [loc EXCEPT ![p].n = staff[req[p].scope]]
    /\ Goto(p, "sync_find")
    /\ UNCHANGED <<slots, bookings, staff>>

\* Slot.find({tenantId, shopId, date, status: {$ne: 'blocked'}})
updateSlotCapacity_FindSlots(p) ==
    /\ pc[p] = "sync_find"
    /\ LET found == {s \in SlotIds : /\ SlotScope(s) = req[p].scope
                                     /\ SlotDate(s) = 0
                                     /\ slots[s].status # "blocked"}
           ids == SeqOf(found)
       IN IF found = {}
          THEN /\ Finish(p)
               /\ UNCHANGED <<slots, bookings, staff>>
          ELSE /\ loc' = [loc EXCEPT ![p].docs = [i \in 1..Len(ids) |-> Load(ids[i])]]
               /\ Goto(p, "sync_save")
               /\ UNCHANGED <<slots, bookings, staff>>

\* faulty loop body: the capacity is raised by one instead of recounted
SyncedDoc_Increment(d, n) ==
    [d EXCEPT !.capacity = d.capacity + 1, !.maxCapacity = n,
              !.status = IF d.bookedCount >= d.capacity + 1 THEN "full"
                         ELSE IF d.status = "full" THEN "available"
                         ELSE d.status]

\* the body of the loop: what the slot document d holds when it is saved,
\* for the active staff count n
SyncedDoc(d, n) ==
    LET newCapacity == Max(n, d.bookedCount)
    IN [d EXCEPT !.capacity = newCapacity,
                 !.maxCapacity = n,
                 !.status = IF d.bookedCount >= newCapacity THEN "full"
                            ELSE IF d.status = "full" THEN "available"
                            ELSE d.status]

\* one turn of the loop over the slots found
updateSlotCapacity_SaveNext(p) ==
    /\ pc[p] = "sync_save"
    /\ LET d == Head(loc[p].docs)
           synced == SyncedDoc(d, loc[p].n)
       IN slots' = [slots EXCEPT
                      ![d.id].capacity = Assign(@, d.capacity, synced.capacity),
                      ![d.id].maxCapacity = Assign(@, d.maxCapacity, synced.maxCapacity),
                      ![d.id].status = Assign(@, d.status, synced.status)]
    /\ IF Tail(loc[p].docs) = <<>>
       THEN Finish(p)
       ELSE /\ loc' = [loc EXCEPT ![p].docs = Tail(loc[p].docs)]
            /\ Goto(p, "sync_save")
    /\ UNCHANGED <<bookings, staff>>

(* ------------------------ SlotService: generation ---------------------- *)
\* The date a generation request names is a day and the seconds the instant
\* carries beside its hours and minutes.  The window start has its seconds
\* zeroed; the closing instant, moment(date).set({hour, minute}), keeps those
\* of date.  currentTime.isBefore(closing instant):
IsBeforeClose(currentTime, end, seconds) == currentTime * 60 < end * 60 + seconds

\* shop.slotDuration || DEFAULT_SLOT_DURATION
SlotDuration(shop) == IF shop.slotDuration = 0 THEN SlotMinutes ELSE shop.slotDuration

\* The unique identity (shopId, date, startTime) of the Slot collection:
\* Slot.create fails when a slot with the key is stored.
DuplicateKey(scope, date, slotTime) == FindSlotByKey(scope, date, slotTime) # 0

\* generateSlots and generateSlotsForDateRange up to the first day of the loop
generateSlots(p, scope, startDate, endDate, seconds) ==
    /\ Ready(p)
    /\ LET r == [NoReq EXCEPT !.op = "generateSlots", !.scope = scope,
                              !.startDate = startDate, !.endDate = endDate,
                              !.seconds = seconds]
       IN IF startDate > endDate
          THEN Finish(p) /\ UNCHANGED <<slots, bookings, staff>>
          ELSE Begin(p, r, [NoLoc EXCEPT !.date = startDate], "gen_shop")

\* generateSlotsForDate returned the slots of its day: the loop of
\* generateSlotsForDateRange goes to the next day, or returns what was created
generateSlotsForDateRange_Next(p, created) ==
    IF loc[p].date + 1 <= req[p].endDate
    THEN /\ loc' = [loc EXCEPT ![p] = [NoLoc EXCEPT !.date = loc[p].date + 1,
                                                    !.created = created]]
         /\ Goto(p, "gen_shop")
    ELSE Finish(p)

\* Shop.findOne({_id: shopId, tenantId})
generateSlotsForDate_FindShop(p) ==
    /\ pc[p] = "gen_shop"
    /\ IF req[p].scope \notin ShopScopes
       THEN Fail(p, req[p], "Shop not found")
       ELSE /\ Goto(p, "gen_count")
            /\ UNCHANGED <<slots, bookings, staff, loc>>

\* faulty step: a closed day is an error
generateSlotsForDate_Count_ClosedFails(p) ==
    /\ pc[p] = "gen_count"
    /\ LET activeStaffCount == staff[req[p].scope]
           workingHours == shops[req[p].scope].workingHours[loc[p].date]
       IN IF activeStaffCount = 0
          THEN Fail(p, req[p], "No active staff found for this shop")
          ELSE IF ~workingHours.isOpen
               THEN Fail(p, req[p], "Shop is closed")
          ELSE /\ loc' = [loc EXCEPT ![p].n = activeStaffCount,
                                     ![p].currentTime = workingHours.start]
               /\ Goto(p, "gen_find")
               /\ UNCHANGED <<slots, bookings, staff>>

\* StaffProfile.countDocuments, the staff and working-hours tests and the
\* start of the loop over the windows
generateSlotsForDate_Count(p) ==
    /\ pc[p] = "gen_count"
    /\ LET activeStaffCount == staff[req[p].scope]
           workingHours == shops[req[p].scope].workingHours[loc[p].date]
       IN IF activeStaffCount = 0
          THEN Fail(p, req[p], "No active staff found for this shop")
          ELSE IF ~workingHours.isOpen
               THEN /\ generateSlotsForDateRange_Next(p, loc[p].created)
                    /\ UNCHANGED <<slots, bookings, staff>>
          ELSE IF ~IsBeforeClose(workingHours.start, workingHours.end, req[p].seconds)
               THEN /\ generateSlotsForDateRange_Next(p, loc[p].created)
                    /\ UNCHANGED <<slots, bookings, staff>>
          ELSE /\ loc' = [loc EXCEPT ![p].n = activeStaffCount,
                                     ![p].currentTime = workingHours.start]
               /\ Goto(p, "gen_find")
               /\ UNCHANGED <<slots, bookings, staff>>

\* currentTime.add(slotDuration, 'minutes') and the loop test
generateSlotsForDate_NextWindow(p, created) ==
    LET shop == shops[req[p].scope]
        nextTime == loc[p].currentTime + SlotDuration(shop)
    IN IF IsBeforeClose(nextTime, shop.workingHours[loc[p].date].end, req[p].seconds)
       THEN /\ loc' = [loc EXCEPT ![p].currentTime = nextTime, ![p].created = created]
            /\ Goto(p, "gen_find")
       ELSE generateSlotsForDateRange_Next(p, created)

\* faulty lookup step: a slot that exists is set back to a fresh one
generateSlotsForDate_FindSlot_Reset(p) ==
    /\ pc[p] = "gen_find"
    /\ LET s == FindSlotByKey(req[p].scope, loc[p].date, loc[p].currentTime)
       IN IF s # 0
          THEN /\ slots' = [slots EXCEPT ![s].capacity = loc[p].n,
                                          ![s].maxCapacity = loc[p].n,
                                          ![s].bookedCount = 0,
                                          ![s].status = "available"]
               /\ generateSlotsForDate_NextWindow(p, loc[p].created)
          ELSE Goto(p, "gen_create") /\ UNCHANGED <<loc, slots>>
    /\ UNCHANGED <<bookings, staff>>

\* Slot.findOne({tenantId, shopId, date: startOf('day'), startTime})
generateSlotsForDate_FindSlot(p) ==
    /\ pc[p] = "gen_find"
    /\ IF FindSlotByKey(req[p].scope, loc[p].date, loc[p].currentTime) # 0
       THEN generateSlotsForDate_NextWindow(p, loc[p].created)
       ELSE Goto(p, "gen_create") /\ UNCHANGED loc
    /\ UNCHANGED <<slots, bookings, staff>>

\* faulty create step: the collection has no unique identity, Slot.create
\* stores whatever it is given
generateSlotsForDate_Create_NoIndex(p) ==
    /\ pc[p] = "gen_create"
    /\ slots' = Append(slots,
                       [NoDoc EXCEPT
                          !.scope = req[p].scope,
                          !.date = loc[p].date,
                          !.startTime = loc[p].currentTime,
                          !.endTime = loc[p].currentTime + SlotDuration(shops[req[p].scope]),
                          !.capacity = loc[p].n,
                          !.maxCapacity = loc[p].n,
                          !.status = "available"])
    /\ generateSlotsForDate_NextWindow(p, Append(loc[p].created, Len(slots) + 1))
    /\ UNCHANGED <<bookings, staff>>

\* faulty create step: every slot is created for one staff member
generateSlotsForDate_Create_OnePlace(p) ==
    /\ pc[p] = "gen_create"
    /\ IF DuplicateKey(req[p].scope, loc[p].date, loc[p].currentTime)
       THEN Fail(p, req[p], "E11000 duplicate key error")
       ELSE /\ slots' = Append(slots,
                               [NoDoc EXCEPT
                                  !.scope = req[p].scope,
                                  !.date = loc[p].date,
                                  !.startTime = loc[p].currentTime,
                                  !.endTime = loc[p].currentTime
                                              + SlotDuration(shops[req[p].scope]),
                                  !.capacity = 1,
                                  !.maxCapacity = loc[p].n,
                                  !.status = "available"])
            /\ generateSlotsForDate_NextWindow(p, Append(loc[p].created, Len(slots) + 1))
            /\ UNCHANGED <<bookings, staff>>

\* Slot.create({...}); bookedCount, isBlocked and the blocking fields get
\* the defaults of the schema
generateSlotsForDate_Create(p) ==
    /\ pc[p] = "gen_create"
    /\ IF DuplicateKey(req[p].scope, loc[p].date, loc[p].currentTime)
       THEN Fail(p, req[p], "E11000 duplicate key error")
       ELSE /\ slots' = Append(slots,
                               [NoDoc EXCEPT
                                  !.scope = req[p].scope,
                                  !.date = loc[p].date,
                                  !.startTime = loc[p].currentTime,
                                  !.endTime = loc[p].currentTime
                                              + SlotDuration(shops[req[p].scope]),
                                  !.capacity = loc[p].n,
                                  !.maxCapacity = loc[p].n,
                                  !.status = "available"])
            /\ generateSlotsForDate_NextWindow(p, Append(loc[p].created, Len(slots) + 1))
            /\ UNCHANGED <<bookings, staff>>

(* ------------------------- socket notifications ----------------------- *)
\* The emitter behind global.slotSocket is outside the services: an emit
\* either delivers or throws.
SocketError == "Socket error"

\* await global.slotSocket.notifyBookingChange(tenantId, shopId, booking) in
\* BookingService: an error of the emit is the error of the handler
notifyBookingChange(p, delivered) ==
    /\ pc[p] = "notify_booking"
    /\ IF delivered
       THEN Finish(p) /\ UNCHANGED <<slots, bookings, staff>>
       ELSE Fail(p, req[p], SocketError)

\* await global.slotSocket.notifySlotCapacityChange(tenantId, shopId) in
\* SlotService: an error of the emit is the error of the handler
notifySlotCapacityChange(p, delivered) ==
    /\ pc[p] = "notify_slot"
    /\ IF delivered
       THEN Finish(p) /\ UNCHANGED <<slots, bookings, staff>>
       ELSE Fail(p, req[p], SocketError)

\* try { await global.slotSocket.notifySlotCapacityChange(databaseName, shopId) }
\* catch { console.error } in SlotBlockingService: the error is logged
notifySlotCapacityChange_Caught(p, delivered) ==
    /\ pc[p] = "notify_slot_caught"
    /\ Finish(p)
    /\ UNCHANGED <<slots, bookings, staff>>

(* ----------------------- SlotAvailabilityService ----------------------- *)
\* The queries read the store in one find and change nothing: each is the
\* function of the store it returns.  The result of a list query is given as
\* the set of slot ids; its order (date, startTime) is not followed.

\* date: {$gte: startOf('day') of startDate, $lte: endOf('day') of endDate}
InDateRange(s, startDate, endDate) ==
    startOfDay(startDate) <= SlotDate(s) /\ SlotDate(s) <= startOfDay(endDate)

\* faulty query: blocked slots are not excluded
getAvailableSlots_WithBlocked(scope, startDate, endDate) ==
    LET found == {s \in SlotIds : /\ SlotScope(s) = scope
                                  /\ InDateRange(s, startDate, endDate)
                                  /\ slots[s].status \in {"available", "full"}}
    IN {s \in found : slots[s].status = "available"
                      /\ slots[s].bookedCount < slots[s].capacity}

\* SlotAvailabilityService.getAvailableSlots: Slot.find, then the filter
getAvailableSlots(scope, startDate, endDate) ==
    LET found == {s \in SlotIds : /\ SlotScope(s) = scope
                                  /\ InDateRange(s, startDate, endDate)
                                  /\ ~slots[s].isBlocked
                                  /\ slots[s].status \in {"available", "full"}}
    IN {s \in found : /\ ~slots[s].isBlocked
                      /\ slots[s].status = "available"
                      /\ slots[s].bookedCount < slots[s].capacity}

\* SlotService.getAvailableSlots: Slot.find, then the filter
SlotService_getAvailableSlots(scope, startDate, endDate) ==
    LET found == {s \in SlotIds : /\ SlotScope(s) = scope
                                  /\ InDateRange(s, startDate, endDate)
                                  /\ ~slots[s].isBlocked
                                  /\ slots[s].status = "available"}
    IN {s \in found : ~slots[s].isBlocked /\ slots[s].bookedCount < slots[s].capacity}

\* faulty pre-check: the status of the slot is not looked at
isSlotAvailable_IgnoresStatus(slotId) ==
    IF slotId \notin SlotIds THEN FALSE
    ELSE ~slots[slotId].isBlocked /\ slots[slotId].bookedCount < slots[slotId].capacity

\* SlotAvailabilityService.isSlotAvailable: Slot.findById, then the test
isSlotAvailable(slotId) ==
    IF slotId \notin SlotIds THEN FALSE
    ELSE /\ ~slots[slotId].isBlocked
         /\ slots[slotId].status = "available"
         /\ slots[slotId].bookedCount < slots[slotId].capacity

\* SlotAvailabilityService.getAvailableSlotById: the error thrown, or "ok"
\* when the slot is returned
getAvailableSlotById(slotId) ==
    IF slotId \notin SlotIds THEN "Slot not found"
    ELSE IF slots[slotId].isBlocked THEN "Slot is blocked and cannot be booked"
    ELSE IF \/ slots[slotId].status # "available"
            \/ slots[slotId].bookedCount >= slots[slotId].capacity
         THEN "Slot is full"
    ELSE "ok"

(* ------------------------------- Next ---------------------------------- *)
\* The handlers that read or write slots and booking statuses.  A service is
\* listed at MaxPrice and no walk-in overrides the price.
CoreNext ==
    \E p \in Procs :
        \/ \E scope \in Scopes, slotId \in SlotIds, svcPrice \in {Unset, MaxPrice},
              autoConfirm \in {"on", "off"} :
             createOnlineBooking_Find(p, scope, slotId, svcPrice, Unset, autoConfirm, 0)
        \/ createOnlineBooking_Create(p)
        \/ \E scope \in Scopes, slotId \in SlotIds :
             createWalkInBooking_Find(p, scope, slotId, MaxPrice, MaxPrice)
        \/ createWalkInBooking_Create(p)
        \/ updateBookedCount_Count(p)
        \/ updateBookedCount_Save(p)
        \/ \E scope \in Scopes, id \in 1..MaxBookings : markArrived_Find(p, scope, id)
        \/ markArrived_Save(p)
        \/ \E scope \in Scopes, id \in 1..MaxBookings : markNoShow_Find(p, scope, id)
        \/ markNoShow_Save(p)
        \/ markNoShow_FindSlot(p)
        \/ \E scope \in Scopes, id \in 1..MaxBookings : startService_Find(p, scope, id)
        \/ startService_Save(p)
        \/ \E scope \in Scopes, id \in 1..MaxBookings : completeService_Find(p, scope, id)
        \/ completeService_Save(p)
        \/ \E scope \in Scopes, id \in 1..MaxBookings, reason \in CancelReasons :
             cancelBooking_Find(p, scope, id, reason)
        \/ cancelBooking_Save(p)
        \/ cancelBooking_FindSlot(p)
        \/ \E scope \in Scopes, slotTime \in StartTimes, reason \in BlockReasons :
             blockSlot_Find(p, scope, Noon(0), slotTime, reason)
        \/ blockSlot_FindBookings(p)
        \/ blockSlot_Cancel(p)
        \/ blockSlot_Save(p)
        \/ \E scope \in Scopes, slotId \in SlotIds, reason \in BlockReasons :
             blockSlotById_Find(p, scope, slotId, reason)
        \/ blockSlotById_FindBookings(p)
        \/ blockSlotById_Cancel(p)
        \/ blockSlotById_Save(p)
        \/ \E scope \in Scopes, slotTime \in StartTimes :
             unblockSlot_Find(p, scope, Noon(0), slotTime)
        \/ unblockSlot_Save(p)
        \/ \E scope \in Scopes, slotId \in SlotIds : unblockSlotById_Find(p, scope, slotId)
        \/ unblockSlotById_Save(p)
        \/ \E scope \in Scopes, slotId \in SlotIds, reason \in BlockReasons :
             SlotService_blockSlot_Find(p, scope, slotId, reason)
        \/ SlotService_blockSlot_Save(p)
        \/ \E scope \in Scopes, slotId \in SlotIds : SlotService_unblockSlot_Find(p, scope, slotId)
        \/ SlotService_unblockSlot_Save(p)
        \/ \E scope \in Scopes, slotId \in SlotIds, c \in 1..MaxStaff :
             reduceSlotCapacity_Find(p, scope, slotId, c)
        \/ reduceSlotCapacity_Save(p)
        \/ \E scope \in ShopScopes : addStaff_Save(p, scope)
        \/ \E scope \in ShopScopes : removeStaff_Save(p, scope)
        \/ updateSlotCapacity_Count(p)
        \/ updateSlotCapacity_FindSlots(p)
        \/ updateSlotCapacity_SaveNext(p)

\* the prices and the settings the requests below are made with
Prices == {0, MaxPrice \div 2, MaxPrice}
AdvanceSettings == {Unset, 0, 3}
DiscountSettings == {Unset, 0, 25, 50}
Days == {0 - d : d \in 0..MaxDaysAhead}

\* editPrice writes the price fields of a booking, which no other handler reads.
PriceNext ==
    \E p \in Procs :
        \/ \E scope \in Scopes, id \in 1..MaxBookings, newPrice \in Prices,
              reason \in EditReasons :
             editPrice_Find(p, scope, id, newPrice, reason)
        \/ \E hasSettings \in BOOLEAN, allowPriceEditing \in BOOLEAN,
              maxDiscount \in DiscountSettings :
             editPrice_Check(p, hasSettings, allowPriceEditing, maxDiscount)
        \/ editPrice_Save(p)

Next == CoreNext \/ PriceNext

\* every worker serves requests: the handlers interleave at their awaited calls
Spec == Init /\ [][Next]_vars

\* one worker: each request runs to its end before the next one starts.  The
\* slots and the statuses are what is followed here, the prices are fixed.
SeqSpec == SeqInit /\ [][CoreNext]_vars

(* ------------------- admission under every setting --------------------- *)
\* One worker.  Creations arrive with every service lookup result, setting
\* and clock reading, against slots that blocking, capacity changes and
\* cancellations have brought into every condition.
AdmitNext ==
    \E p \in Procs :
        \/ \E scope \in Scopes, slotId \in SlotIds, svcPrice \in {Unset, MaxPrice},
              advanceSetting \in AdvanceSettings, autoConfirm \in AutoConfirmSettings,
              today \in Days :
             createOnlineBooking_Find(p, scope, slotId, svcPrice, advanceSetting,
                                      autoConfirm, today)
        \/ createOnlineBooking_Create(p)
        \/ \E scope \in Scopes, slotId \in SlotIds, svcPrice \in {Unset, MaxPrice} :
             createWalkInBooking_Find(p, scope, slotId, svcPrice, Unset)
        \/ createWalkInBooking_Create(p)
        \/ updateBookedCount_Count(p)
        \/ updateBookedCount_Save(p)
        \/ \E scope \in Scopes, id \in 1..MaxBookings, reason \in CancelReasons :
             cancelBooking_Find(p, scope, id, reason)
        \/ cancelBooking_Save(p)
        \/ cancelBooking_FindSlot(p)
        \/ \E scope \in Scopes, slotId \in SlotIds, reason \in BlockReasons :
             blockSlotById_Find(p, scope, slotId, reason)
        \/ blockSlotById_FindBookings(p)
        \/ blockSlotById_Cancel(p)
        \/ blockSlotById_Save(p)
        \/ \E scope \in Scopes, slotId \in SlotIds : unblockSlotById_Find(p, scope, slotId)
        \/ unblockSlotById_Save(p)
        \/ \E scope \in Scopes, slotId \in SlotIds, reason \in BlockReasons :
             SlotService_blockSlot_Find(p, scope, slotId, reason)
        \/ SlotService_blockSlot_Save(p)
        \/ \E scope \in Scopes, slotId \in SlotIds : SlotService_unblockSlot_Find(p, scope, slotId)
        \/ SlotService_unblockSlot_Save(p)
        \/ \E scope \in Scopes, slotId \in SlotIds, c \in 1..MaxStaff :
             reduceSlotCapacity_Find(p, scope, slotId, c)
        \/ reduceSlotCapacity_Save(p)

AdmitSpec == SeqInit /\ [][AdmitNext]_vars

(* ---------------------- prices and price edits ------------------------- *)
\* One worker.  Bookings are created at every price, online and walk-in with
\* and without an override, moved through their statuses, and re-priced under
\* every setting.
PriceSpecNext ==
    \/ \E p \in Procs :
          \/ \E svcPrice \in Prices, autoConfirm \in AutoConfirmSettings :
               createOnlineBooking_Find(p, 1, 1, svcPrice, Unset, autoConfirm, 0)
          \/ createOnlineBooking_Create(p)
          \/ \E svcPrice \in Prices, price \in Prices \cup {Unset} :
               createWalkInBooking_Find(p, 1, 1, svcPrice, price)
          \/ createWalkInBooking_Create(p)
          \/ updateBookedCount_Count(p)
          \/ updateBookedCount_Save(p)
          \/ \E id \in 1..MaxBookings : markArrived_Find(p, 1, id)
          \/ markArrived_Save(p)
          \/ \E id \in 1..MaxBookings : startService_Find(p, 1, id)
          \/ startService_Save(p)
          \/ \E id \in 1..MaxBookings : completeService_Find(p, 1, id)
          \/ completeService_Save(p)
    \/ PriceNext

PriceSpec == SeqInit /\ [][PriceSpecNext]_vars

(* ------------------- concurrent online creations ----------------------- *)
\* Every worker sends one valid createOnlineBooking for slot 1, which is
\* unblocked and has nothing booked; the calls interleave freely.
RaceStart(p) ==
    /\ res[p] = Null
    /\ \E autoConfirm \in {"on", "off"} :
         createOnlineBooking_Find(p, 1, 1, MaxPrice, Unset, autoConfirm, 0)

RaceNext ==
    \E p \in Procs :
        \/ RaceStart(p)
        \/ createOnlineBooking_Create(p)
        \/ updateBookedCount_Count(p)
        \/ updateBookedCount_Save(p)

RaceSpec == Init /\ [][RaceNext]_vars

(* ---------------- creations that interleave with a Block --------------- *)
\* Booking creations, Block and Unblock of slot 1, served concurrently.
BlockRaceNext ==
    \E p \in Procs :
        \/ \E autoConfirm \in {"on", "off"} :
             createOnlineBooking_Find(p, 1, 1, MaxPrice, Unset, autoConfirm, 0)
        \/ createOnlineBooking_Create(p)
        \/ createWalkInBooking_Find(p, 1, 1, MaxPrice, MaxPrice)
        \/ createWalkInBooking_Create(p)
        \/ updateBookedCount_Count(p)
        \/ updateBookedCount_Save(p)
        \/ \E reason \in BlockReasons : blockSlotById_Find(p, 1, 1, reason)
        \/ blockSlotById_FindBookings(p)
        \/ blockSlotById_Cancel(p)
        \/ blockSlotById_Save(p)
        \/ unblockSlotById_Find(p, 1, 1)
        \/ unblockSlotById_Save(p)

BlockRaceSpec == Init /\ [][BlockRaceNext]_vars

(* --------- generation between bookings, blocking and roster changes ---- *)
\* the closing times, the slot durations and the seconds of a date argument
CloseTime == 600
ShopDurations == {30, 45}
DateSeconds == {0, 30}

\* the steps of a generation request
GenerationNext(p) ==
    \/ \E scope \in Scopes, startDate \in GenDays, endDate \in GenDays,
          seconds \in DateSeconds :
         generateSlots(p, scope, startDate, endDate, seconds)
    \/ generateSlotsForDate_FindShop(p)
    \/ generateSlotsForDate_Count(p)
    \/ generateSlotsForDate_FindSlot(p)
    \/ generateSlotsForDate_Create(p)

\* No slot is stored; the shop is open from 09:00 to 10:00 on the days it is
\* open at all.
GenStore ==
    /\ slots = <<>>
    /\ slotSocket = FALSE
    /\ staff \in [ShopScopes -> 0..MaxStaff]
    /\ \E open \in [GenDays -> BOOLEAN], d \in ShopDurations :
         shops = [sc \in ShopScopes |->
                    [workingHours |-> [day \in GenDays |->
                                         [isOpen |-> open[day], start |-> OpenTime,
                                          end |-> CloseTime]],
                     slotDuration |-> d]]
    /\ Requests

GenInit == GenStore /\ workers = {1}

GenNext ==
    \E p \in Procs :
        \/ GenerationNext(p)
        \/ \E scope \in ShopScopes : createWalkInBooking_Find(p, scope, 1, MaxPrice, MaxPrice)
        \/ createWalkInBooking_Create(p)
        \/ updateBookedCount_Count(p)
        \/ updateBookedCount_Save(p)
        \/ \E scope \in ShopScopes : blockSlotById_Find(p, scope, 1, Null)
        \/ blockSlotById_FindBookings(p)
        \/ blockSlotById_Cancel(p)
        \/ blockSlotById_Save(p)
        \/ \E scope \in ShopScopes : addStaff_Save(p, scope)
        \/ \E scope \in ShopScopes : removeStaff_Save(p, scope)
        \/ updateSlotCapacity_Count(p)
        \/ updateSlotCapacity_FindSlots(p)
        \/ updateSlotCapacity_SaveNext(p)

GenSpec == GenInit /\ [][GenNext]_vars

\* two generation requests at a time, for a shop open on both days
GenRaceInit ==
    /\ GenStore
    /\ workers = Procs
    /\ staff[1] = 1
    /\ \A day \in GenDays : shops[1].workingHours[day].isOpen

GenRaceNext == \E p \in Procs : GenerationNext(p)

GenRaceSpec == GenRaceInit /\ [][GenRaceNext]_vars

(* ------- capacity changes that interleave with booking creations ------ *)
\* Online creations on slot 1, a manual capacity reduction of it and roster
\* changes with their capacity sync, served concurrently.
CapRaceNext ==
    \E p \in Procs :
        \/ \E autoConfirm \in {"on", "off"} :
             createOnlineBooking_Find(p, 1, 1, MaxPrice, Unset, autoConfirm, 0)
        \/ createOnlineBooking_Create(p)
        \/ updateBookedCount_Count(p)
        \/ updateBookedCount_Save(p)
        \/ \E c \in 1..MaxStaff : reduceSlotCapacity_Find(p, 1, 1, c)
        \/ reduceSlotCapacity_Save(p)
        \/ addStaff_Save(p, 1)
        \/ removeStaff_Save(p, 1)
        \/ updateSlotCapacity_Count(p)
        \/ updateSlotCapacity_FindSlots(p)
        \/ updateSlotCapacity_SaveNext(p)

CapRaceSpec == Init /\ [][CapRaceNext]_vars

(* ------------------- requests with the socket installed --------------- *)
\* global.slotSocket is installed; requests for shop 1 are served one at a
\* time, and every emit may deliver or throw.
NotifyInit == StoreAsGenerated /\ slotSocket = TRUE /\ workers = {1}

NotifyNext ==
    \E p \in Procs :
        \/ \E autoConfirm \in {"on", "off"} :
             createOnlineBooking_Find(p, 1, 1, MaxPrice, Unset, autoConfirm, 0)
        \/ createOnlineBooking_Create(p)
        \/ createWalkInBooking_Find(p, 1, 1, MaxPrice, MaxPrice)
        \/ createWalkInBooking_Create(p)
        \/ updateBookedCount_Count(p)
        \/ updateBookedCount_Save(p)
        \/ \E id \in 1..MaxBookings : markArrived_Find(p, 1, id)
        \/ markArrived_Save(p)
        \/ \E id \in 1..MaxBookings : markNoShow_Find(p, 1, id)
        \/ markNoShow_Save(p)
        \/ markNoShow_FindSlot(p)
        \/ \E id \in 1..MaxBookings : startService_Find(p, 1, id)
        \/ startService_Save(p)
        \/ \E id \in 1..MaxBookings : completeService_Find(p, 1, id)
        \/ completeService_Save(p)
        \/ \E id \in 1..MaxBookings, reason \in CancelReasons :
             cancelBooking_Find(p, 1, id, reason)
        \/ cancelBooking_Save(p)
        \/ cancelBooking_FindSlot(p)
        \/ blockSlotById_Find(p, 1, 1, Null)
        \/ blockSlotById_FindBookings(p)
        \/ blockSlotById_Cancel(p)
        \/ blockSlotById_Save(p)
        \/ unblockSlotById_Find(p, 1, 1)
        \/ unblockSlotById_Save(p)
        \/ SlotService_blockSlot_Find(p, 1, 1, Null)
        \/ SlotService_blockSlot_Save(p)
        \/ SlotService_unblockSlot_Find(p, 1, 1)
        \/ SlotService_unblockSlot_Save(p)
        \/ \E c \in 1..MaxStaff : reduceSlotCapacity_Find(p, 1, 1, c)
        \/ reduceSlotCapacity_Save(p)
        \/ addStaff_Save(p, 1)
        \/ removeStaff_Save(p, 1)
        \/ updateSlotCapacity_Count(p)
        \/ updateSlotCapacity_FindSlots(p)
        \/ updateSlotCapacity_SaveNext(p)
        \/ \E delivered \in BOOLEAN : notifyBookingChange(p, delivered)
        \/ \E delivered \in BOOLEAN : notifySlotCapacityChange(p, delivered)
        \/ \E delivered \in BOOLEAN : notifySlotCapacityChange_Caught(p, delivered)

NotifySpec == NotifyInit /\ [][NotifyNext]_vars

(* -------------- transitions that interleave on one booking ------------- *)
\* Slot 1 of a shop with one active staff member holds one confirmed booking,
\* as an online creation leaves it.  The transitions of that booking and a
\* Block of the slot are served concurrently.
TransitionRaceInit ==
    /\ staff = [sc \in ShopScopes |-> 1]
    /\ slots = [s \in 1..NumSlots |->
                  [NoDoc EXCEPT !.scope = 1, !.date = 0,
                                !.startTime = OpenTime + (s - 1) * SlotMinutes,
                                !.endTime = OpenTime + s * SlotMinutes,
                                !.capacity = 1,
                                !.maxCapacity = 1,
                                !.bookedCount = 1,
                                !.status = "full"]]
    /\ shops = [sc \in ShopScopes |->
                  [workingHours |-> [d \in GenDays |->
                                       [isOpen |-> d = 0, start |-> OpenTime,
                                        end |-> OpenTime + NumSlots * SlotMinutes]],
                   slotDuration |-> SlotMinutes]]
    /\ bookings = <<[NoBooking EXCEPT !.id = 1, !.slotId = 1, !.scope = 1,
                                      !.status = Confirmed,
                                      !.originalPrice = MaxPrice,
                                      !.finalPrice = MaxPrice]>>
    /\ pc = [p \in Procs |-> "idle"]
    /\ req = [p \in Procs |-> NoReq]
    /\ loc = [p \in Procs |-> NoLoc]
    /\ res = [p \in Procs |-> Null]
    /\ slotSocket = FALSE
    /\ workers = Procs

TransitionRaceNext ==
    \E p \in Procs :
        \/ markArrived_Find(p, 1, 1)
        \/ markArrived_Save(p)
        \/ markNoShow_Find(p, 1, 1)
        \/ markNoShow_Save(p)
        \/ markNoShow_FindSlot(p)
        \/ startService_Find(p, 1, 1)
        \/ startService_Save(p)
        \/ completeService_Find(p, 1, 1)
        \/ completeService_Save(p)
        \/ \E reason \in CancelReasons : cancelBooking_Find(p, 1, 1, reason)
        \/ cancelBooking_Save(p)
        \/ cancelBooking_FindSlot(p)
        \/ updateBookedCount_Count(p)
        \/ updateBookedCount_Save(p)
        \/ blockSlotById_Find(p, 1, 1, "maintenance")
        \/ blockSlotById_FindBookings(p)
        \/ blockSlotById_Cancel(p)
        \/ blockSlotById_Save(p)

TransitionRaceSpec == TransitionRaceInit /\ [][TransitionRaceNext]_vars

(* ------------------------ bookings left pending ------------------------ *)
\* One worker.  Online bookings are created on slot 1 with and without
\* auto-confirm; every transition, price edits, Block and Unblock are then
\* requested for them.
PendingNext ==
    \E p \in Procs :
        \/ \E autoConfirm \in {"on", "off"} :
             createOnlineBooking_Find(p, 1, 1, MaxPrice, Unset, autoConfirm, 0)
        \/ createOnlineBooking_Create(p)
        \/ updateBookedCount_Count(p)
        \/ updateBookedCount_Save(p)
        \/ \E id \in 1..MaxBookings : markArrived_Find(p, 1, id)
        \/ markArrived_Save(p)
        \/ \E id \in 1..MaxBookings : markNoShow_Find(p, 1, id)
        \/ markNoShow_Save(p)
        \/ markNoShow_FindSlot(p)
        \/ \E id \in 1..MaxBookings : startService_Find(p, 1, id)
        \/ startService_Save(p)
        \/ \E id \in 1..MaxBookings : completeService_Find(p, 1, id)
        \/ completeService_Save(p)
        \/ \E id \in 1..MaxBookings, reason \in CancelReasons :
             cancelBooking_Find(p, 1, id, reason)
        \/ cancelBooking_Save(p)
        \/ cancelBooking_FindSlot(p)
        \/ \E id \in 1..MaxBookings, reason \in EditReasons :
             editPrice_Find(p, 1, id, MaxPrice \div 2, reason)
        \/ \E hasSettings \in BOOLEAN, allowPriceEditing \in BOOLEAN :
             editPrice_Check(p, hasSettings, allowPriceEditing, Unset)
        \/ editPrice_Save(p)
        \/ blockSlotById_Find(p, 1, 1, "maintenance")
        \/ blockSlotById_FindBookings(p)
        \/ blockSlotById_Cancel(p)
        \/ blockSlotById_Save(p)
        \/ unblockSlotById_Find(p, 1, 1)
        \/ unblockSlotById_Save(p)

PendingSpec == SeqInit /\ [][PendingNext]_vars

(* --------------------------- two shops --------------------------------- *)
\* One worker.  Shop 1 and the shop of scope 2 each have a slot for the same
\* window of today; the slot of scope 2 is full with one confirmed booking,
\* as an online creation leaves it.  So every identifier a request can pass
\* names a document of its own scope or of the other one.
ScopeInit ==
    /\ staff = [sc \in ShopScopes |-> 1]
    /\ slots = [s \in Scopes |->
                  [NoDoc EXCEPT !.scope = s, !.date = 0,
                                !.startTime = OpenTime,
                                !.endTime = OpenTime + SlotMinutes,
                                !.capacity = 1,
                                !.maxCapacity = 1,
                                !.bookedCount = IF s \in ShopScopes THEN 0 ELSE 1,
                                !.status = IF s \in ShopScopes THEN "available"
                                           ELSE "full"]]
    /\ shops = [sc \in ShopScopes |->
                  [workingHours |-> [d \in GenDays |->
                                       [isOpen |-> d = 0, start |-> OpenTime,
                                        end |-> OpenTime + SlotMinutes]],
                   slotDuration |-> SlotMinutes]]
    /\ bookings = <<[NoBooking EXCEPT !.id = 1, !.slotId = 2, !.scope = 2,
                                      !.status = Confirmed,
                                      !.originalPrice = MaxPrice,
                                      !.finalPrice = MaxPrice]>>
    /\ pc = [p \in Procs |-> "idle"]
    /\ req = [p \in Procs |-> NoReq]
    /\ loc = [p \in Procs |-> NoLoc]
    /\ res = [p \in Procs |-> Null]
    /\ slotSocket = FALSE
    /\ workers = {1}

\* every operation, invoked for shop 1 with every identifier there is; the
\* other arguments are fixed
ScopeNext ==
    \E p \in Procs :
        \/ \E scope \in ShopScopes, slotId \in SlotIds :
             createOnlineBooking_Find(p, scope, slotId, MaxPrice, Unset, "on", 0)
        \/ createOnlineBooking_Create(p)
        \/ \E scope \in ShopScopes, slotId \in SlotIds :
             createWalkInBooking_Find(p, scope, slotId, MaxPrice, MaxPrice)
        \/ createWalkInBooking_Create(p)
        \/ updateBookedCount_Count(p)
        \/ updateBookedCount_Save(p)
        \/ \E scope \in ShopScopes, id \in 1..MaxBookings : markArrived_Find(p, scope, id)
        \/ markArrived_Save(p)
        \/ \E scope \in ShopScopes, id \in 1..MaxBookings : markNoShow_Find(p, scope, id)
        \/ markNoShow_Save(p)
        \/ markNoShow_FindSlot(p)
        \/ \E scope \in ShopScopes, id \in 1..MaxBookings : startService_Find(p, scope, id)
        \/ startService_Save(p)
        \/ \E scope \in ShopScopes, id \in 1..MaxBookings : completeService_Find(p, scope, id)
        \/ completeService_Save(p)
        \/ \E scope \in ShopScopes, id \in 1..MaxBookings, reason \in CancelReasons :
             cancelBooking_Find(p, scope, id, reason)
        \/ cancelBooking_Save(p)
        \/ cancelBooking_FindSlot(p)
        \/ \E scope \in ShopScopes : blockSlot_Find(p, scope, Noon(0), OpenTime, "maintenance")
        \/ blockSlot_FindBookings(p)
        \/ blockSlot_Cancel(p)
        \/ blockSlot_Save(p)
        \/ \E scope \in ShopScopes, slotId \in SlotIds :
             blockSlotById_Find(p, scope, slotId, "maintenance")
        \/ blockSlotById_FindBookings(p)
        \/ blockSlotById_Cancel(p)
        \/ blockSlotById_Save(p)
        \/ \E scope \in ShopScopes : unblockSlot_Find(p, scope, Noon(0), OpenTime)
        \/ unblockSlot_Save(p)
        \/ \E scope \in ShopScopes, slotId \in SlotIds : unblockSlotById_Find(p, scope, slotId)
        \/ unblockSlotById_Save(p)
        \/ \E scope \in ShopScopes, slotId \in SlotIds :
             SlotService_blockSlot_Find(p, scope, slotId, "maintenance")
        \/ SlotService_blockSlot_Save(p)
        \/ \E scope \in ShopScopes, slotId \in SlotIds : SlotService_unblockSlot_Find(p, scope, slotId)
        \/ SlotService_unblockSlot_Save(p)
        \/ \E scope \in ShopScopes, slotId \in SlotIds : reduceSlotCapacity_Find(p, scope, slotId, 1)
        \/ reduceSlotCapacity_Save(p)
        \/ \E scope \in ShopScopes : addStaff_Save(p, scope)
        \/ \E scope \in ShopScopes : removeStaff_Save(p, scope)
        \/ updateSlotCapacity_Count(p)
        \/ updateSlotCapacity_FindSlots(p)
        \/ updateSlotCapacity_SaveNext(p)

ScopeSpec == ScopeInit /\ [][ScopeNext]_vars

(* ============================== properties ============================= *)
\* no request is being served
Quiescent == \A p \in Procs : pc[p] = "idle"

\* worker p ends the request it is serving, successfully, in this step
Completes(p) == pc[p] # "idle" /\ pc'[p] = "idle" /\ res'[p] = "ok"

Min(a, b) == IF a <= b THEN a ELSE b

(* ---- C1 ---- *)
\* C1: after any sequence of completed operations, every slot has
\* 0 <= bookedCount <= capacity.
C1_CapacityInvariant ==
    Quiescent => \A s \in SlotIds : /\ 0 <= slots[s].bookedCount
                                    /\ slots[s].bookedCount <= slots[s].capacity

(* ---- C2 ---- *)
\* every worker has sent its creation and got the result
RaceDone == \A p \in Procs : pc[p] = "idle" /\ res[p] # Null

\* C2: of N concurrent online creations for one unblocked slot with capacity C
\* and nothing booked, exactly min(N, C) succeed and the others fail because
\* the slot is full.
C2_ExactlyMinSucceed ==
    RaceDone =>
        /\ Cardinality({p \in Procs : res[p] = "ok"}) = Min(NumProcs, slots[1].capacity)
        /\ \A p \in Procs : res[p] # "ok" => res[p] = "Slot is full"

(* ---- C3 ---- *)
\* worker p is inside a Block: past its guards, the slot not yet saved
InBlock(p) == pc[p] \in {"bs_find", "bs_cancel", "bi_find", "bi_cancel"}

\* C3: Block is atomic for readers: no reachable state shows a slot marked
\* blocked with a booking of it still occupying, nor a slot still unblocked
\* with bookings of it already cancelled by the Block in progress.
C3_BlockAtomic ==
    /\ \A s \in SlotIds : slots[s].isBlocked => OccupyingIds(s) = {}
    /\ \A p \in Procs :
         InBlock(p) /\ ~slots[loc[p].doc.id].isBlocked =>
             \A b \in loc[p].pre : bookings[b].status # Cancelled

(* ---- C4 ---- *)
\* C4: when a Block succeeds, every booking that occupied the slot right before
\* the call is cancelled with cancelledByType admin, cancelledBy the actor and
\* the given reason (or "Slot blocked by admin"), and the slot is isBlocked,
\* status blocked, bookedCount 0.
C4_CascadeComplete ==
    [][\A p \in Procs :
         req[p].op \in {"blockSlot", "blockSlotById"} /\ Completes(p) =>
             LET s == loc[p].doc.id
             IN /\ \A b \in loc[p].pre :
                      /\ bookings'[b].status = Cancelled
                      /\ bookings'[b].cancelledByType = "admin"
                      /\ bookings'[b].cancelledBy = req[p].actor
                      /\ bookings'[b].cancellationReason =
                             IF req[p].reason = Null THEN "Slot blocked by admin"
                             ELSE req[p].reason
                /\ slots'[s].isBlocked
                /\ slots'[s].status = "blocked"
                /\ slots'[s].bookedCount = 0]_vars

\* a full slot of capacity 2 was blocked for maintenance: both bookings cancelled
C4_FullSlotBlocked ==
    /\ Quiescent
    /\ \E s \in SlotIds :
         /\ slots[s].isBlocked /\ slots[s].status = "blocked" /\ slots[s].bookedCount = 0
         /\ slots[s].capacity = 2
         /\ Cardinality({b \in 1..Len(bookings) :
                           /\ bookings[b].slotId = s
                           /\ bookings[b].status = Cancelled
                           /\ bookings[b].cancelledByType = "admin"
                           /\ bookings[b].cancellationReason = "maintenance"}) = 2

(* ---- C5 ---- *)
\* C5: while a slot is blocked (from a Block to the next Unblock) no booking of
\* it is in an occupying status and its bookedCount is 0, also when a creation
\* interleaves with the Block.
C5_BlockedStaysEmpty ==
    \A s \in SlotIds :
        slots[s].isBlocked => OccupyingIds(s) = {} /\ slots[s].bookedCount = 0

(* ---- C6 ---- *)
\* C6: after every mutator each slot has status blocked iff isBlocked, and a
\* slot that is not blocked is full iff bookedCount >= capacity, else available.
C6_StatusDerived ==
    Quiescent =>
        \A s \in SlotIds :
            /\ (slots[s].status = "blocked") <=> slots[s].isBlocked
            /\ ~slots[s].isBlocked =>
                   slots[s].status = IF slots[s].bookedCount >= slots[s].capacity
                                     THEN "full" ELSE "available"

(* ---- C7 ---- *)
\* C7: whenever no operation is in progress, each slot's bookedCount is the
\* number of its bookings that are pending, confirmed, arrived or in_progress.
C7_CountIsOccupying ==
    Quiescent =>
        \A s \in SlotIds :
            slots[s].bookedCount =
                Cardinality({b \in 1..Len(bookings) :
                               /\ bookings[b].slotId = s
                               /\ bookings[b].status \in
                                      {"pending", "confirmed", "arrived", "in_progress"}})

(* ---- C8 ---- *)
\* the slot the request of worker p is about
OpSlot(p) ==
    IF req[p].op \in {"createOnlineBooking", "createWalkInBooking"} THEN req[p].id
    ELSE bookings[req[p].id].slotId

\* C8: when a creation (online or walk-in), a mark-no-show or a cancel completes
\* without interleaving, the slot's bookedCount is the live count of its
\* occupying bookings and its status is the one derived from that count.
C8_RecountOnCompletion ==
    [][\A p \in Procs :
         /\ req[p].op \in {"createOnlineBooking", "createWalkInBooking",
                           "markNoShow", "cancelBooking"}
         /\ Completes(p)
         => LET s == OpSlot(p)
                n == Cardinality({b \in 1..Len(bookings') :
                                    /\ bookings'[b].slotId = s
                                    /\ bookings'[b].status \in OccupyingStatuses})
            IN /\ slots'[s].bookedCount = n
               /\ slots'[s].status = IF slots'[s].isBlocked THEN "blocked"
                                     ELSE IF n >= slots'[s].capacity THEN "full"
                                     ELSE "available"]_vars

\* the only booking of a full slot of capacity 1 was cancelled by its customer:
\* the slot counts 0 again and is available
C8_CancelFreedSlot ==
    /\ Quiescent
    /\ Len(bookings) = 1
    /\ bookings[1].status = Cancelled
    /\ bookings[1].cancelledByType = Null
    /\ LET s == bookings[1].slotId
       IN /\ slots[s].capacity = 1 /\ slots[s].bookedCount = 0
          /\ slots[s].status = "available"
          /\ ~slots[s].blockedAt /\ ~slots[s].unblockAt

(* ---- C9 ---- *)
\* the transition table: operation, source status, target status
LegalTransitions ==
    {<<"markArrived", Confirmed, Arrived>>,
     <<"markNoShow", Confirmed, NoShow>>, <<"markNoShow", Arrived, NoShow>>,
     <<"startService", Confirmed, InProgress>>, <<"startService", Arrived, InProgress>>,
     <<"completeService", InProgress, Completed>>,
     <<"cancelBooking", Confirmed, Cancelled>>, <<"cancelBooking", Arrived, Cancelled>>}

AdmissionOps ==
    {"createOnlineBooking", "createWalkInBooking", "markArrived", "markNoShow",
     "startService", "completeService", "cancelBooking"}

\* C9: every change of a booking's status made by a step of an admission
\* operation is a transition of the table.
C9_OnlyLegalTransitions ==
    [][\A p \in Procs, b \in 1..Len(bookings) :
         /\ req[p].op \in AdmissionOps
         /\ pc[p] # "idle" /\ pc'[p] # pc[p]
         /\ bookings'[b].status # bookings[b].status
         => <<req[p].op, bookings[b].status, bookings'[b].status>> \in LegalTransitions]_vars

\* one booking went confirmed -> in_progress -> completed, another became a no-show
C9_CompletedAndNoShow ==
    \E b1, b2 \in 1..Len(bookings) :
        bookings[b1].status = Completed /\ bookings[b2].status = NoShow

(* ---- C10 ---- *)
\* the source statuses the table permits for each transition
PermittedSources(op) ==
    CASE op = "markArrived" -> {Confirmed}
      [] op = "markNoShow" -> {Confirmed, Arrived}
      [] op = "startService" -> {Confirmed, Arrived}
      [] op = "completeService" -> {InProgress}
      [] op = "cancelBooking" -> {Confirmed, Arrived}

\* booking id exists in the scope and its status permits the transition
Permitted(op, scope, id) ==
    /\ id \in 1..Len(bookings)
    /\ bookings[id].scope = scope
    /\ bookings[id].status \in PermittedSources(op)

\* the request of worker p ends in this step with an error, nothing stored changes
Rejected(p) ==
    /\ pc'[p] = "idle"
    /\ res'[p] \notin {Null, "ok"}
    /\ bookings' = bookings
    /\ slots' = slots

\* worker p takes, in this step, a transition request on a booking that is
\* not in a permitted source status or not in the given tenant and shop
IllegalRequest(p) ==
    /\ Ready(p)
    /\ \E scope \in Scopes, id \in 1..MaxBookings :
         \/ ~Permitted("markArrived", scope, id) /\ markArrived_Find(p, scope, id)
         \/ ~Permitted("markNoShow", scope, id) /\ markNoShow_Find(p, scope, id)
         \/ ~Permitted("startService", scope, id) /\ startService_Find(p, scope, id)
         \/ ~Permitted("completeService", scope, id) /\ completeService_Find(p, scope, id)
         \/ /\ ~Permitted("cancelBooking", scope, id)
            /\ \E reason \in CancelReasons : cancelBooking_Find(p, scope, id, reason)

\* C10: a transition requested on a booking whose status is not a permitted
\* source, or that does not exist in the given tenant and shop, fails with an
\* error and changes no booking and no slot.
C10_IllegalTransitionRejected ==
    [][\A p \in Procs : Rejected(p) \/ ~IllegalRequest(p)]_vars

\* complete-service was refused while every booking was still confirmed
C10_CompleteRefused ==
    /\ Quiescent
    /\ Len(bookings) >= 1
    /\ \A b \in 1..Len(bookings) : bookings[b].status = Confirmed
    /\ res[1] = "Booking not found or not in progress"

(* ---- C11 ---- *)
\* the window the tenant configured, 7 days when it configured none
TenantAdvanceDays(setting) == IF setting = Unset THEN DefaultAdvanceDays ELSE setting

\* The errors of the guards an online creation with these arguments fails.  A
\* slot counts as blocked by its flag or by its status, and as full by its
\* counts or by its status.
OnlineFailures(scope, slotId, svcPrice, setting, today) ==
    IF ~(slotId \in SlotIds /\ SlotScope(slotId) = scope) THEN {"Slot not found"}
    ELSE (IF slots[slotId].isBlocked \/ slots[slotId].status = "blocked"
          THEN {"Slot is blocked and cannot be booked"} ELSE {})
         \cup (IF \/ slots[slotId].bookedCount >= slots[slotId].capacity
                  \/ slots[slotId].status = "full"
               THEN {"Slot is full"} ELSE {})
         \cup (IF svcPrice = Unset THEN {"Service not found or inactive"} ELSE {})
         \cup (IF SlotDate(slotId) - today > TenantAdvanceDays(setting)
               THEN {"Bookings can only be made some days in advance"} ELSE {})

\* C11: an online creation whose slot is missing in the tenant and shop, is
\* blocked, has no free capacity, whose service is not active, or whose slot
\* date is more than the tenant's max-advance-days after today, fails with the
\* error of a failing guard, creates no booking and leaves the slot unchanged.
C11_OnlineGuards ==
    [][\A p \in Procs, scope \in Scopes, slotId \in SlotIds, svcPrice \in {Unset, MaxPrice},
          setting \in AdvanceSettings, auto \in AutoConfirmSettings, today \in Days :
         LET failures == OnlineFailures(scope, slotId, svcPrice, setting, today)
         IN \/ failures = {}
            \/ ~createOnlineBooking_Find(p, scope, slotId, svcPrice, setting, auto, today)
            \/ Rejected(p) /\ res'[p] \in failures]_vars

WalkInAdmissible(scope, slotId) ==
    /\ slotId \in SlotIds /\ SlotScope(slotId) = scope
    /\ ~slots[slotId].isBlocked /\ slots[slotId].status # "blocked"

\* C13: a walk-in creation (for a service that exists) against a slot that
\* exists and is not blocked is admitted whatever the slot's bookedCount and
\* capacity, and the booking it creates is confirmed; against a blocked or
\* missing slot it fails, creating no booking.
C13_WalkInAdmission ==
    [][\A p \in Procs :
         /\ \A scope \in Scopes, slotId \in SlotIds, svcPrice \in {Unset, MaxPrice} :
              createWalkInBooking_Find(p, scope, slotId, svcPrice, Unset) =>
                  IF WalkInAdmissible(scope, slotId)
                  THEN svcPrice # Unset => pc'[p] = "wi_create"
                  ELSE Rejected(p)
         /\ pc[p] = "wi_create" /\ pc'[p] # "wi_create" =>
              /\ Len(bookings') = Len(bookings) + 1
              /\ bookings'[Len(bookings')].status = Confirmed
              /\ bookings'[Len(bookings')].slotId = req[p].id
         /\ req[p].op = "createWalkInBooking" /\ Completes(p) =>
              bookings'[Len(bookings')].status = Confirmed]_vars

\* two walk-ins were admitted to a slot of capacity 1: it counts 2, both confirmed
C13_WalkInOverCapacity ==
    /\ Quiescent
    /\ Len(bookings) = 2
    /\ \A b \in 1..2 : bookings[b].status = Confirmed
    /\ slots[1].capacity = 1 /\ slots[1].bookedCount = 2

(* ---- C14 ---- *)
\* C14: a walk-in booking is created with priceEdited = true, editedBy the
\* staff member and an editReason exactly when its final price differs from
\* the listed price of the service; otherwise (no override given, or one equal
\* to the listed price) priceEdited is false and editedBy, editReason are empty.
C14_WalkInPriceEdited ==
    [][\A p \in Procs :
         pc[p] = "wi_create" /\ pc'[p] # "wi_create" =>
             LET b == bookings'[Len(bookings')]
                 listed == req[p].arg
             IN /\ b.priceEdited <=> b.finalPrice # listed
                /\ b.priceEdited => b.editedBy = req[p].actor /\ b.editReason # Null
                /\ ~b.priceEdited => b.editedBy = 0 /\ b.editReason = Null]_vars

(* ---- C15 ---- *)
\* the discount of newPrice against originalPrice, in percent, is above maxDiscount
DiscountAboveCap(originalPrice, newPrice, maxDiscount) ==
    /\ originalPrice > 0
    /\ (originalPrice - newPrice) * 100 > maxDiscount * originalPrice

\* C15: edit-price is refused, with no booking changed, on a booking that is
\* not confirmed, arrived or in_progress, when the shop's settings do not allow
\* price editing, and when the discount of the new price against originalPrice
\* is above the max-discount percentage the tenant configured.
C15_EditPricePolicy ==
    [][\A p \in Procs :
         /\ \A scope \in Scopes, id \in 1..MaxBookings, newPrice \in Prices,
               reason \in EditReasons :
              \/ /\ id \in 1..Len(bookings)
                 /\ bookings[id].scope = scope
                 /\ bookings[id].status \in {Confirmed, Arrived, InProgress}
              \/ ~editPrice_Find(p, scope, id, newPrice, reason)
              \/ Rejected(p)
         /\ \A allowPriceEditing \in BOOLEAN, maxDiscount \in DiscountSettings :
              /\ editPrice_Check(p, TRUE, allowPriceEditing, maxDiscount)
              /\ \/ ~allowPriceEditing
                 \/ /\ maxDiscount # Unset
                    /\ DiscountAboveCap(loc[p].bdoc.originalPrice, req[p].price, maxDiscount)
              => Rejected(p)]_vars

(* ---- C16 ---- *)
\* C16: when a cancel of a confirmed or arrived booking completes, the booking
\* is cancelled, with cancelledAt set, cancelledBy the caller, the reason given,
\* and cancelledByType the kind of the caller: customer, staff or admin.
C16_CancelRecordsCaller ==
    [][\A p \in Procs :
         req[p].op = "cancelBooking" /\ Completes(p) =>
             LET b == bookings'[req[p].id]
             IN /\ b.status = Cancelled
                /\ b.cancelledAt
                /\ b.cancelledBy = req[p].actor
                /\ b.cancellationReason = req[p].reason
                /\ b.cancelledByType \in {"customer", "staff", "admin"}]_vars

(* ---- C17 ---- *)
BlockOps == {"blockSlot", "blockSlotById"}
UnblockOps == {"unblockSlot", "unblockSlotById"}

\* worker p takes, in this step, a Block of a slot that is blocked (blocked =
\* TRUE) or an Unblock of a slot that is not (blocked = FALSE)
ConflictingRequest(p, blocked) ==
    /\ Ready(p)
    /\ \E scope \in Scopes, s \in SlotIds :
         /\ SlotScope(s) = scope
         /\ slots[s].isBlocked = blocked
         /\ IF blocked
            THEN \E reason \in BlockReasons :
                   \/ blockSlot_Find(p, scope, Noon(SlotDate(s)), SlotStart(s), reason)
                   \/ blockSlotById_Find(p, scope, s, reason)
            ELSE \/ unblockSlot_Find(p, scope, Noon(SlotDate(s)), SlotStart(s))
                 \/ unblockSlotById_Find(p, scope, s)

\* C17: a Block of a blocked slot and an Unblock of a slot that is not blocked
\* fail with the conflict error and change no slot and no booking; a slot
\* becomes blocked only by a Block that found it unblocked and unblocked only
\* by an Unblock that found it blocked, so the two alternate.
C17_ConflictAndAlternation ==
    [][/\ \A p \in Procs :
            /\ ConflictingRequest(p, TRUE) =>
                   Rejected(p) /\ res'[p] = "Slot is already blocked"
            /\ ConflictingRequest(p, FALSE) =>
                   Rejected(p) /\ res'[p] = "Slot is not blocked"
            /\ req[p].op \in BlockOps /\ Completes(p) =>
                   ~slots[loc[p].doc.id].isBlocked /\ slots'[loc[p].doc.id].isBlocked
            /\ req[p].op \in UnblockOps /\ Completes(p) =>
                   slots[loc[p].doc.id].isBlocked /\ ~slots'[loc[p].doc.id].isBlocked
       /\ \A s \in SlotIds :
            slots'[s].isBlocked # slots[s].isBlocked =>
                \E p \in Procs :
                    /\ Completes(p)
                    /\ loc[p].doc.id = s
                    /\ req[p].op \in IF slots[s].isBlocked THEN UnblockOps ELSE BlockOps]_vars

\* a slot blocked for maintenance, in its second blocked period, refused
\* another Block and kept its metadata
C17_SecondBlockRefused ==
    /\ Quiescent
    /\ res[1] = "Slot is already blocked"
    /\ slots[1].isBlocked /\ slots[1].status = "blocked"
    /\ slots[1].blockedReason = "maintenance"
    /\ slots[1].unblockAt

(* ---- C18 ---- *)
\* C18: when an Unblock completes the slot has isBlocked, blockedBy, blockedAt
\* and blockedReason cleared and unblockAt set, its status is full if
\* bookedCount >= capacity and available otherwise, and its capacity, its
\* bookedCount and every booking are as they were before the call.
C18_UnblockRestores ==
    [][\A p \in Procs :
         req[p].op \in UnblockOps /\ pc[p] # "idle" =>
             /\ bookings' = bookings
             /\ Completes(p) =>
                  LET s == loc[p].doc.id
                  IN /\ ~slots'[s].isBlocked
                     /\ slots'[s].blockedBy = 0
                     /\ ~slots'[s].blockedAt
                     /\ slots'[s].blockedReason = Null
                     /\ slots'[s].unblockAt
                     /\ slots'[s].status = IF slots[s].bookedCount >= slots[s].capacity
                                           THEN "full" ELSE "available"
                     /\ slots'[s].capacity = slots[s].capacity
                     /\ slots'[s].maxCapacity = slots[s].maxCapacity
                     /\ slots'[s].bookedCount = slots[s].bookedCount]_vars

\* a slot of capacity 2 with nothing booked was blocked and unblocked: it is available
C18_UnblockedAvailable ==
    /\ Quiescent
    /\ res[1] = "ok"
    /\ bookings = <<>>
    /\ slots[1].capacity = 2 /\ slots[1].bookedCount = 0
    /\ ~slots[1].isBlocked /\ slots[1].status = "available"
    /\ slots[1].unblockAt /\ ~slots[1].blockedAt
    /\ slots[1].blockedBy = 0 /\ slots[1].blockedReason = Null

(* ---- C19 ---- *)
\* C19: no step of a Block changes the capacity, the maxCapacity or the
\* unblockAt of its slot, or anything of another slot; when the Block
\* completes, capacity and maxCapacity are the ones the slot had when the call
\* began.
C19_BlockKeepsCapacity ==
    [][\A p \in Procs :
         (req[p].op \in BlockOps \/ req'[p].op \in BlockOps) =>
             /\ \A s \in SlotIds :
                  /\ slots'[s].capacity = slots[s].capacity
                  /\ slots'[s].maxCapacity = slots[s].maxCapacity
                  /\ slots'[s].unblockAt = slots[s].unblockAt
                  /\ s # loc[p].doc.id => slots'[s] = slots[s]
             /\ Completes(p) =>
                  /\ slots'[loc[p].doc.id].capacity = loc[p].doc.capacity
                  /\ slots'[loc[p].doc.id].maxCapacity = loc[p].doc.maxCapacity]_vars

\* a slot whose capacity had been reduced to 1 of 2 was blocked with its one
\* booking: the booking is cancelled, the count is 0, the capacity is still 1
C19_ReducedSlotBlocked ==
    /\ Quiescent
    /\ slots[1].isBlocked /\ slots[1].status = "blocked"
    /\ slots[1].capacity = 1 /\ slots[1].maxCapacity = 2
    /\ slots[1].bookedCount = 0
    /\ Len(bookings) = 1
    /\ bookings[1].status = Cancelled /\ bookings[1].cancelledByType = "admin"

(* ---- C20 ---- *)
\* what a Block or an Unblock can end with at its guards
SelectorErrors == {"Slot not found", "Slot is already blocked", "Slot is not blocked"}

\* From the state at hand, a Block (an Unblock) of slot s of shop scope
\* addressed by date and start time and one addressed by id fail with the same
\* error, or both pass the guards holding the same slot.
SameGuards(p, scope, s) ==
    /\ \A reason \in BlockReasons :
         /\ \A err \in SelectorErrors :
              (ENABLED (/\ blockSlot_Find(p, scope, Noon(SlotDate(s)), SlotStart(s), reason)
                        /\ pc'[p] = "idle" /\ res'[p] = err))
              <=> (ENABLED (/\ blockSlotById_Find(p, scope, s, reason)
                            /\ pc'[p] = "idle" /\ res'[p] = err))
         /\ (ENABLED (/\ blockSlot_Find(p, scope, Noon(SlotDate(s)), SlotStart(s), reason)
                      /\ pc'[p] = "bs_find" /\ loc'[p].doc = Load(s)
                      /\ req'[p].reason = reason /\ req'[p].actor = p))
            <=> (ENABLED (/\ blockSlotById_Find(p, scope, s, reason)
                          /\ pc'[p] = "bi_find" /\ loc'[p].doc = Load(s)
                          /\ req'[p].reason = reason /\ req'[p].actor = p))
    /\ \A err \in SelectorErrors :
         (ENABLED (/\ unblockSlot_Find(p, scope, Noon(SlotDate(s)), SlotStart(s))
                   /\ pc'[p] = "idle" /\ res'[p] = err))
         <=> (ENABLED (/\ unblockSlotById_Find(p, scope, s)
                       /\ pc'[p] = "idle" /\ res'[p] = err))
    /\ (ENABLED (/\ unblockSlot_Find(p, scope, Noon(SlotDate(s)), SlotStart(s))
                 /\ pc'[p] = "us_save" /\ loc'[p].doc = Load(s)))
       <=> (ENABLED (/\ unblockSlotById_Find(p, scope, s)
                     /\ pc'[p] = "ui_save" /\ loc'[p].doc = Load(s)))

\* the slot document a Block by actor leaves, given the one it loaded
BlockedDoc(d, actor, reason) ==
    [d EXCEPT !.isBlocked = TRUE, !.status = "blocked", !.bookedCount = 0,
              !.blockedBy = actor, !.blockedAt = TRUE, !.blockedReason = reason]

\* the slot document an Unblock leaves, given the one it loaded
UnblockedDoc(d) ==
    [d EXCEPT !.isBlocked = FALSE, !.blockedBy = 0, !.blockedAt = FALSE,
              !.blockedReason = Null, !.unblockAt = TRUE,
              !.status = IF d.bookedCount >= d.capacity THEN "full" ELSE "available"]

\* the booking document the cascade of a Block leaves
AdminCancelled(b, actor, reason) ==
    [b EXCEPT !.status = Cancelled, !.cancelledAt = TRUE, !.cancelledBy = actor,
              !.cancelledByType = "admin",
              !.cancellationReason = IF reason = Null THEN "Slot blocked by admin"
                                     ELSE reason]

\* What a step of a Block or an Unblock of worker p does to the store is one
\* function of the slot it holds, the actor and the reason, whichever entry
\* point the call came through.
SameEffects(p) ==
    LET d == loc[p].doc
        cancels == bookings' # bookings
    IN /\ req[p].op \in BlockOps /\ pc[p] # "idle" =>
            /\ cancels =>
                  /\ loc[p].list # <<>> /\ ~Completes(p)
                  /\ LET b == Head(loc[p].list).id
                     IN /\ b \in loc[p].pre
                        /\ bookings' =
                              [bookings EXCEPT
                                 ![b] = AdminCancelled(@, req[p].actor, req[p].reason)]
            /\ IF Completes(p)
               THEN /\ [slots'[d.id] EXCEPT !.id = d.id] = BlockedDoc(d, req[p].actor, req[p].reason)
                    /\ \A b \in loc[p].pre : bookings'[b].status = Cancelled
                    /\ \A s \in SlotIds \ {d.id} : slots'[s] = slots[s]
               ELSE slots' = slots
       /\ req[p].op \in UnblockOps /\ pc[p] # "idle" =>
            /\ ~cancels
            /\ IF Completes(p)
               THEN /\ [slots'[d.id] EXCEPT !.id = d.id] = UnblockedDoc(d)
                    /\ \A s \in SlotIds \ {d.id} : slots'[s] = slots[s]
               ELSE slots' = slots

\* C20: Block and Unblock addressed by (date, startTime) and addressed by slot
\* id, from the same state and for the same slot, fail with the same errors or
\* pass their guards alike, and then leave the same slot document and the same
\* cancelled bookings with the same cancellation fields.
C20_SelectorsAgree ==
    /\ [](Quiescent => \A p \in workers, scope \in Scopes, s \in SlotIds :
                          SameGuards(p, scope, s))
    /\ [][\A p \in Procs : SameEffects(p)]_vars

\* a Block addressed by date and start time has cancelled both bookings of
\* its slot and is about to save the slot
C20_ByKeyCascadeDone ==
    /\ pc[1] = "bs_cancel" /\ req[1].op = "blockSlot"
    /\ loc[1].list = <<>>
    /\ Cardinality(loc[1].pre) = 2
    /\ \A b \in loc[1].pre : /\ bookings[b].status = Cancelled
                               /\ bookings[b].cancelledByType = "admin"
    /\ ~slots[1].isBlocked

(* ---- C21 ---- *)
\* the date ranges a list query is made with
QueryDates == {Noon(0 - 1), Noon(0), Noon(1)}

\* C21: a slot with isBlocked = true is in the output of no available-slots
\* query, whatever its status, capacity and bookedCount.
C21_BlockedNeverListed ==
    \A scope \in Scopes, startDate \in QueryDates, endDate \in QueryDates, s \in SlotIds :
        slots[s].isBlocked =>
            /\ s \notin getAvailableSlots(scope, startDate, endDate)
            /\ s \notin SlotService_getAvailableSlots(scope, startDate, endDate)

\* a blocked slot whose status says available and which has free capacity
C21_BlockedLooksAvailable ==
    /\ Quiescent
    /\ slots[1].isBlocked
    /\ slots[1].status = "available"
    /\ slots[1].bookedCount < slots[1].capacity
    /\ getAvailableSlots(1, Noon(0), Noon(0)) = {}

(* ---- C22 ---- *)
\* an id no slot has
MissingSlotId == Len(slots) + 1

\* C22: a list query returns exactly the slots of the shop in the date range
\* that are not blocked, have status available and bookedCount < capacity;
\* isSlotAvailable(id) is true exactly when getAvailableSlotById(id) returns
\* the slot, which fails with not-found for a missing slot, blocked for a
\* blocked one and full for an unblocked one without free capacity.
C22_QueriesAgree ==
    /\ \A scope \in Scopes, startDate \in QueryDates, endDate \in QueryDates :
         LET expected == {s \in SlotIds :
                            /\ slots[s].scope = scope
                            /\ startDate \div HoursPerDay <= slots[s].date
                            /\ slots[s].date <= endDate \div HoursPerDay
                            /\ ~slots[s].isBlocked
                            /\ slots[s].status = "available"
                            /\ slots[s].bookedCount < slots[s].capacity}
         IN /\ getAvailableSlots(scope, startDate, endDate) = expected
            /\ SlotService_getAvailableSlots(scope, startDate, endDate) = expected
    /\ \A id \in SlotIds \cup {MissingSlotId} :
         /\ isSlotAvailable(id) <=> getAvailableSlotById(id) = "ok"
         /\ id \notin SlotIds => getAvailableSlotById(id) = "Slot not found"
         /\ id \in SlotIds /\ slots[id].isBlocked =>
                getAvailableSlotById(id) = "Slot is blocked and cannot be booked"
         /\ id \in SlotIds /\ ~slots[id].isBlocked
                /\ slots[id].bookedCount >= slots[id].capacity =>
                getAvailableSlotById(id) = "Slot is full"

\* a slot of two places has both taken: it is listed no more and the
\* pre-check says full
C22_ListedThenFull ==
    /\ Quiescent
    /\ slots[1].capacity = 2 /\ slots[1].bookedCount = 2
    /\ slots[1].status = "full" /\ ~slots[1].isBlocked
    /\ getAvailableSlots(1, Noon(0), Noon(0)) = {}
    /\ getAvailableSlotById(1) = "Slot is full"

(* ---- C23 ---- *)
GenLabels == {"gen_shop", "gen_count", "gen_find", "gen_create"}

\* the window starts the loop of generateSlotsForDate goes through
RECURSIVE WindowsFrom(_, _, _, _)
WindowsFrom(currentTime, end, d, seconds) ==
    IF IsBeforeClose(currentTime, end, seconds)
    THEN {currentTime} \cup WindowsFrom(currentTime + d, end, d, seconds)
    ELSE {}

\* the slot collection S holds a slot for every window of the day
DayGenerated(S, scope, day, seconds) ==
    /\ scope \in ShopScopes
    /\ LET h == shops[scope].workingHours[day]
       IN h.isOpen =>
            \A w \in WindowsFrom(h.start, h.end, SlotDuration(shops[scope]), seconds) :
                \E s \in DOMAIN S : /\ S[s].scope = scope /\ S[s].date = day
                                     /\ S[s].startTime = w

\* worker p is done with the day it was generating, without an error
LeavesDay(p) ==
    \/ pc'[p] = "idle" /\ res'[p] = "ok"
    \/ pc'[p] \in GenLabels /\ loc'[p].date # loc[p].date

\* C23: generation is idempotent.  A step of a generation request changes no
\* slot that exists; when it is done with a day, every window of the day has
\* its slot; and on a day whose windows all have their slots it creates
\* nothing, whatever happened to those slots and to the staff since.
C23_GenerationIdempotent ==
    [][\A p \in workers :
          pc[p] \in GenLabels =>
            /\ \A s \in DOMAIN slots : s \in DOMAIN slots' /\ slots'[s] = slots[s]
            /\ LeavesDay(p) =>
                  DayGenerated(slots', req[p].scope, loc[p].date, req[p].seconds)
            /\ DayGenerated(slots, req[p].scope, loc[p].date, req[p].seconds) =>
                  slots' = slots]_vars

\* a second generation of a day is at the last window, has created nothing,
\* and finds a slot of the day with a capacity that is not the staff count
\* of now and another day's slot with a booking
C23_SecondRunAtLastWindow ==
    /\ pc[1] = "gen_find"
    /\ loc[1].date = 1
    /\ loc[1].currentTime > OpenTime
    /\ loc[1].created = <<>>
    /\ DayGenerated(slots, 1, 1, req[1].seconds)
    /\ \E s \in SlotIds : /\ slots[s].date = 1
                           /\ slots[s].capacity # loc[1].n
    /\ \E s \in SlotIds : slots[s].bookedCount > 0

GeneratedSlots == {s \in SlotIds : slots[s].scope = 1}

\* C25: for opening time o, closing time c and duration d, generation creates
\* the windows [o + k*d, o + (k+1)*d) that lie within [o, c): every created
\* slot starts k durations after o, ends d minutes after its start and not
\* after c.
C25_WindowsWithinHours ==
    \A s \in GeneratedSlots :
        LET h == shops[1].workingHours[slots[s].date]
            d == SlotDuration(shops[1])
        IN /\ slots[s].startTime >= h.start
           /\ (slots[s].startTime - h.start) % d = 0
           /\ slots[s].endTime = slots[s].startTime + d
           /\ slots[s].endTime <= h.end

(* ---- C26 ---- *)
\* C26: generation for a shop without active staff fails with the no-staff
\* error and has created no slot; with staff, a day on which the shop is
\* closed adds nothing to the result, creates no slot and is no error: the
\* request goes on to the next day or returns what it has.
C26_ClosedAndNoStaff ==
    [][\A p \in workers :
          pc[p] = "gen_count" =>
            LET n == staff[req[p].scope]
                closed == ~shops[req[p].scope].workingHours[loc[p].date].isOpen
            IN /\ n = 0 =>
                    /\ pc'[p] = "idle"
                    /\ res'[p] = "No active staff found for this shop"
                    /\ loc[p].created = <<>>
                    /\ slots' = slots
               /\ n > 0 /\ closed =>
                    /\ slots' = slots
                    /\ \/ pc'[p] = "idle" /\ res'[p] = "ok"
                       \/ /\ pc'[p] = "gen_shop"
                          /\ loc'[p].date = loc[p].date + 1
                          /\ loc'[p].created = loc[p].created]_vars

\* a request went past today, on which the shop is closed, to tomorrow;
\* nothing was created
C26_PastClosedDay ==
    /\ pc[1] = "gen_shop"
    /\ loc[1].date = 1
    /\ ~shops[1].workingHours[0].isOpen
    /\ staff[1] > 0
    /\ loc[1].created = <<>>
    /\ slots = <<>>

(* ---- C27 ---- *)
\* C27: every slot generation creates has capacity = maxCapacity = the active
\* staff count of the shop, bookedCount = 0, status available and
\* isBlocked = false.
C27_FreshSlot ==
    [][\A p \in workers :
          pc[p] = "gen_create" /\ Len(slots') > Len(slots) =>
            LET d == slots'[Len(slots')]
            IN /\ Len(slots') = Len(slots) + 1
               /\ d.capacity = staff[req[p].scope]
               /\ d.maxCapacity = staff[req[p].scope]
               /\ d.bookedCount = 0
               /\ d.status = "available"
               /\ ~d.isBlocked]_vars

\* a shop with two active staff members had a slot created after a roster
\* change; the request is at its next window
C27_CreatedForTwo ==
    /\ pc[1] = "gen_find"
    /\ loc[1].created # <<>>
    /\ staff[1] = 2
    /\ slots[Len(slots)].capacity = 2
    /\ \E s \in SlotIds : slots[s].maxCapacity = 1

(* ---- C28 ---- *)
SyncLabels == {"sync_count", "sync_find", "sync_save"}

\* worker p returns from updateSlotCapacity in this step
SyncCompletes(p) == pc[p] \in SyncLabels /\ Completes(p)

\* the slots updateSlotCapacity is called for: the shop's slots of today
SyncSlots(scope) == {s \in SlotIds : slots[s].scope = scope /\ slots[s].date = 0}

\* C28: the capacity sync changes no field of a slot with isBlocked = true,
\* and when it returns every slot of the date has capacity >= bookedCount.
C28_SyncFloorBlockedUntouched ==
    [][\A p \in workers :
          pc[p] \in SyncLabels =>
            /\ \A s \in SyncSlots(req[p].scope) : slots[s].isBlocked => slots'[s] = slots[s]
            /\ SyncCompletes(p) =>
                  \A s \in SyncSlots(req[p].scope) :
                      slots'[s].capacity >= slots'[s].bookedCount]_vars

(* ---- C29 ---- *)
\* C29: when the capacity sync returns, every slot of the date that is not
\* blocked has maxCapacity = the active staff count n, capacity =
\* max(n, bookedCount) and status full if bookedCount >= capacity and
\* available otherwise; no step of the sync changes a bookedCount.
C29_SyncRecomputes ==
    [][\A p \in workers :
          pc[p] \in SyncLabels =>
            /\ \A s \in SyncSlots(req[p].scope) : slots'[s].bookedCount = slots[s].bookedCount
            /\ SyncCompletes(p) =>
                  \A s \in SyncSlots(req[p].scope) :
                      ~slots[s].isBlocked =>
                        LET n == staff[req[p].scope]
                            d == slots'[s]
                        IN /\ d.maxCapacity = n
                           /\ d.capacity = Max(n, d.bookedCount)
                           /\ d.status = IF d.bookedCount >= d.capacity THEN "full"
                                         ELSE "available"]_vars

(* ---- C30 ---- *)
\* C30: the capacity sync is idempotent.  When it returns, a second run with
\* the same staff count would find its slots (those of the date whose status
\* is not blocked) and save each of them as it is.
C30_SyncIdempotent ==
    [][\A p \in workers :
          SyncCompletes(p) =>
            \A s \in SyncSlots(req[p].scope) :
                slots'[s].status # "blocked" =>
                    SyncedDoc(slots'[s], staff'[req[p].scope]) = slots'[s]]_vars

\* the last staff member was removed while a slot had a booking: the sync
\* left the slot with capacity 1 above maxCapacity 0
C30_SyncedAboveRoster ==
    /\ Quiescent
    /\ staff[1] = 0
    /\ slots[1].maxCapacity = 0
    /\ slots[1].capacity = 1 /\ slots[1].bookedCount = 1
    /\ slots[1].status = "full"

(* ---- C31 ---- *)
\* C31: neither the capacity sync nor the manual reduction stores a capacity
\* below the bookedCount the slot has at that moment, also when a booking
\* creation on the slot runs at the same time; a manual reduction to less
\* than bookedCount fails and leaves the slot as it is.
C31_CapacityNotBelowBooked ==
    [][/\ \A s \in SlotIds :
            slots'[s].capacity # slots[s].capacity =>
                slots'[s].capacity >= slots'[s].bookedCount
       /\ \A p \in workers, c \in 1..MaxStaff :
            reduceSlotCapacity_Find(p, 1, 1, c) /\ c < slots[1].bookedCount =>
                /\ res'[p] = "Cannot reduce capacity below current bookings"
                /\ slots' = slots]_vars

(* ---- C32 ---- *)
NotifyLabels == {"notify_booking", "notify_slot", "notify_slot_caught"}

\* C32: an emit that throws after the change is stored does not make the
\* operation fail: a request that has reached its emit returns normally.
C32_EmitFailureNotReported ==
    [][\A p \in workers :
          pc[p] \in NotifyLabels /\ pc'[p] = "idle" => res'[p] = "ok"]_vars

(* ---- C33 ---- *)
\* the operations that store a capacity, a bookedCount or the blocked state
\* of a slot when they succeed
SlotChangingOps ==
    {"addStaff", "removeStaff", "reduceSlotCapacity", "createOnlineBooking",
     "createWalkInBooking", "markNoShow", "cancelBooking", "SlotService.blockSlot",
     "SlotService.unblockSlot"} \cup BlockOps \cup UnblockOps

\* C33: every operation that changes the capacity, the bookedCount or the
\* blocked state of a slot ends, after its writes, with the emit of a
\* capacity-change notification.
C33_CapacityChangeNotified ==
    [][\A p \in workers :
          Completes(p) /\ req[p].op \in SlotChangingOps =>
              pc[p] \in {"notify_slot", "notify_slot_caught"}]_vars

(* ---- C34 ---- *)
\* the operations that store the status of a booking when they succeed
BookingChangingOps ==
    {"createOnlineBooking", "createWalkInBooking", "markArrived", "markNoShow",
     "startService", "completeService", "cancelBooking"}

\* C34: every operation that created a booking or changed the status of
\* one, a Block that cancelled bookings included, ends with the emit of a
\* booking-change notification.
C34_BookingChangeNotified ==
    [][\A p \in workers :
          /\ Completes(p)
          /\ \/ req[p].op \in BookingChangingOps
             \/ req[p].op \in BlockOps /\ loc[p].pre # {}
          => pc[p] = "notify_booking"]_vars

(* ---- C35 ---- *)
\* the scope of the request worker 1 is serving in this step (0: the request
\* is refused at its lookup)
StepScope == IF req[1].scope # 0 THEN req[1].scope ELSE req'[1].scope

\* the documents the handler holds after the step
LoadedSlots == {loc'[1].doc} \cup {loc'[1].docs[i] : i \in DOMAIN loc'[1].docs}
LoadedBookings == {loc'[1].bdoc} \cup {loc'[1].list[i] : i \in DOMAIN loc'[1].list}

\* what the transitions answer when their lookup finds no booking
NotFoundErrors == {"Booking not found", "Booking not found or already processed",
                   "Booking not found or cannot be started",
                   "Booking not found or not in progress",
                   "Booking not found or cannot be cancelled"}

\* C35: a step of an operation invoked for a scope leaves every slot and
\* every booking of another scope as it was, creates bookings only in its
\* own scope and on a slot of its own scope, and holds in its locals only
\* slots and bookings of its own scope; an identifier of another scope's
\* slot or booking is answered with not found.
C35_NoScopeCrossing ==
    [][/\ \A s \in SlotIds : slots[s].scope # StepScope => slots'[s] = slots[s]
       /\ \A b \in DOMAIN bookings :
            bookings[b].scope # StepScope => bookings'[b] = bookings[b]
       /\ \A b \in DOMAIN bookings' \ DOMAIN bookings :
            /\ bookings'[b].scope = StepScope
            /\ slots[bookings'[b].slotId].scope = StepScope
       /\ \A d \in LoadedSlots : d.id # 0 => d.scope = StepScope
       /\ \A d \in LoadedBookings : d.id # 0 => d.scope = StepScope
       /\ \A scope \in ShopScopes, slotId \in SlotIds :
            /\ SlotScope(slotId) # scope
            /\ \/ blockSlotById_Find(1, scope, slotId, "maintenance")
               \/ unblockSlotById_Find(1, scope, slotId)
               \/ SlotService_blockSlot_Find(1, scope, slotId, "maintenance")
               \/ SlotService_unblockSlot_Find(1, scope, slotId)
               \/ reduceSlotCapacity_Find(1, scope, slotId, 1)
               \/ createWalkInBooking_Find(1, scope, slotId, MaxPrice, MaxPrice)
               \/ createOnlineBooking_Find(1, scope, slotId, MaxPrice, Unset, "on", 0)
            => res'[1] = "Slot not found" /\ UNCHANGED store
       /\ \A scope \in ShopScopes, id \in DOMAIN bookings :
            /\ bookings[id].scope # scope
            /\ \/ markArrived_Find(1, scope, id)
               \/ markNoShow_Find(1, scope, id)
               \/ startService_Find(1, scope, id)
               \/ completeService_Find(1, scope, id)
               \/ \E reason \in CancelReasons : cancelBooking_Find(1, scope, id, reason)
            => /\ res'[1] \in NotFoundErrors
               /\ pc'[1] = "idle"
               /\ UNCHANGED store]_vars

\* both shops have a booking; a no-show marked in shop 1 has freed the place
\* of its slot while the slot of the other shop is as full as it was
C35_NoShowInOneShop ==
    /\ Quiescent
    /\ Len(bookings) = 2
    /\ bookings[2].scope = 1 /\ bookings[2].status = NoShow
    /\ bookings[1].scope = 2 /\ bookings[1].status = Confirmed
    /\ slots[1].bookedCount = 0
    /\ slots[2].bookedCount = 1 /\ slots[2].status = "full"
    /\ res[1] = "ok"

(* ---- C36 ---- *)
TerminalStatuses == {Completed, Cancelled, NoShow}

\* C36: under every interleaving, a booking whose stored status is completed,
\* cancelled or no_show keeps that status in every later step.
C36_TerminalAbsorbing ==
    [][\A b \in DOMAIN bookings :
          bookings[b].status \in TerminalStatuses =>
              bookings'[b].status = bookings[b].status]_vars

(* ---- C37 ---- *)
\* C37: of the Block requests that run concurrently on one unblocked slot at
\* most one succeeds: a Block that succeeds saves onto a slot that no other
\* Block has blocked since it was read, so the blocked fields of the slot
\* are written by one Block only.
C37_OneBlockSucceeds ==
    [][\A p \in workers :
          Completes(p) /\ req[p].op \in BlockOps =>
              ~slots[loc[p].doc.id].isBlocked]_vars

(* ---- C38 ---- *)
\* worker 1 takes, in this step, a transition or a price edit of booking b
TransitionRequested(b) ==
    \/ markArrived_Find(1, 1, b)
    \/ markNoShow_Find(1, 1, b)
    \/ startService_Find(1, 1, b)
    \/ completeService_Find(1, 1, b)
    \/ \E reason \in CancelReasons : cancelBooking_Find(1, 1, b, reason)
    \/ \E reason \in EditReasons : editPrice_Find(1, 1, b, MaxPrice \div 2, reason)

RejectedErrors == NotFoundErrors \cup {"Booking not found or cannot be edited"}

\* C38: mark-arrived, mark-no-show, start-service, complete-service, cancel
\* and edit-price requested for a pending booking fail and change nothing;
\* a pending booking stays pending in every step except the step of a Block
\* of its slot that cancels it; and between requests the slot of a pending
\* booking counts at least one booked place.
C38_PendingOnlyLeavesByBlock ==
    [][\A b \in DOMAIN bookings :
          bookings[b].status = Pending =>
              /\ TransitionRequested(b) =>
                     /\ res'[1] \in RejectedErrors
                     /\ pc'[1] = "idle"
                     /\ UNCHANGED store
              /\ bookings'[b].status \in {Pending, Cancelled}
              /\ bookings'[b].status = Cancelled =>
                     /\ req[1].op \in BlockOps
                     /\ loc[1].doc.id = bookings[b].slotId
              /\ Quiescent => slots[bookings[b].slotId].bookedCount >= 1]_vars

\* a pending booking has been refused a transition and still holds its place
C38_PendingRefused ==
    /\ Quiescent
    /\ \E b \in DOMAIN bookings :
         /\ bookings[b].status = Pending
         /\ slots[bookings[b].slotId].bookedCount >= 1
    /\ res[1] \in RejectedErrors

====
